---- MODULE Spec2Model ----
(***************************************************************************)
(* Decode pipeline of rpajarola/exiftools: container detection, the        *)
(* decode orchestrator, the parser chain with the default parser and the   *)
(* Apple, Canon, Nikon, Adobe-DNG and Sony maker-note parsers.             *)
(*                                                                         *)
(* Byte strings are sequences of integers 0..255.  The tiff package is not *)
(* part of the modelled sources: a buffer that holds directories carries,  *)
(* next to its bytes, the table "dirs" of the directories tiff.DecodeDir   *)
(* finds in it (offset -> sequence of tags); an offset outside that table  *)
(* does not decode.                                                        *)
(***************************************************************************)
EXTENDS Integers, Sequences, FiniteSets, TLC

\* ------------------------------------------------------------------ bounds
\* longest run of filler bytes in front of the APP1 marker of a JPEG input
MaxPad == 2

\* the longest byte sequence given to the scans on their own
MaxScanLen == 4

\* the small MaxExifSize option value tried next to 0 (= default)
SmallMaxExifSize == 16

\* ------------------------------------------------------- program constants
jpegAPP1 == 225
exifLengthCutoff == 4194304
loadExif == 0
loadGPS == 1
loadInteroperability == 2

\* ------------------------------------------------------------ byte strings
Min(a, b) == IF a < b THEN a ELSE b

SubSeqFrom(s, from) == SubSeq(s, from, Len(s))

\* data[a:b] of Go, 0-based, b exclusive
Slice(s, a, b) == SubSeq(s, a + 1, b)

RECURSIVE Zeros(_)
Zeros(n) == IF n <= 0 THEN <<>> ELSE <<0>> \o Zeros(n - 1)

\* strings.HasPrefix / bytes prefix comparison
HasPrefix(s, p) == Len(s) >= Len(p) /\ SubSeq(s, 1, Len(p)) = p

\* "Exif\0\0"
ExifMarker == <<69, 120, 105, 102, 0, 0>>
\* "Apple iOS\0\0\001"
AppleSignature == <<65, 112, 112, 108, 101, 32, 105, 79, 83, 0, 0, 1>>
\* "Canon", "SONY", "HASSELBLAD", "Nikon"
StrCanon == <<67, 97, 110, 111, 110>>
StrSONY == <<83, 79, 78, 89>>
StrHASSELBLAD == <<72, 65, 83, 83, 69, 76, 66, 76, 65, 68>>
StrNikon == <<78, 105, 107, 111, 110>>
\* "SONY DSC \0", "SONY CAM \0", "SONY MOBILE \0", "\0\0SONY PIC\0", "VHAB     \0"
SigSonyDSC == <<83, 79, 78, 89, 32, 68, 83, 67, 32, 0>>
SigSonyCAM == <<83, 79, 78, 89, 32, 67, 65, 77, 32, 0>>
SigSonyMOBILE == <<83, 79, 78, 89, 32, 77, 79, 66, 73, 76, 69, 32, 0>>
SigSonyPIC == <<0, 0, 83, 79, 78, 89, 32, 80, 73, 67, 0>>
SigVHAB == <<86, 72, 65, 66, 32, 32, 32, 32, 32, 0>>

\* --------------------------------------------------------- container detector
fileTypeTIFF == "TIFF"
fileTypeRawExif == "RawExif"
fileTypeHEIF == "HEIF"
fileTypeJPEG == "JPEG"

detectFileType_NoPrecedence(header) ==
    IF Slice(header, 4, Len(header)) = <<102, 116, 121, 112>> THEN fileTypeHEIF
    ELSE IF Slice(header, 0, 4) \in {<<73, 73, 42, 0>>, <<77, 77, 0, 42>>} THEN fileTypeTIFF
    ELSE IF Slice(header, 0, 4) = <<69, 120, 105, 102>> THEN fileTypeRawExif
    ELSE fileTypeJPEG

detectFileType(header) ==
    IF Slice(header, 0, 4) \in {<<73, 73, 42, 0>>, <<77, 77, 0, 42>>} THEN fileTypeTIFF
    ELSE IF Slice(header, 0, 4) = <<69, 120, 105, 102>> THEN fileTypeRawExif
    ELSE IF Slice(header, 4, Len(header)) = <<102, 116, 121, 112>> THEN fileTypeHEIF
    ELSE fileTypeJPEG

\* io.ReadFull of 6 bytes and the comparison with "Exif\0\0"
processRawExifFile(r) == Len(r) >= 6 /\ Slice(r, 0, 6) = ExifMarker

\* newAppSec: the reader position is the number of bytes consumed so far.
\* Result: ok, the section body, and the position after the last byte used.
RECURSIVE IndexByte(_, _, _)
IndexByte(s, from, c) ==
    IF from > Len(s) THEN 0
    ELSE IF s[from] = c THEN from
    ELSE IndexByte(s, from + 1, c)

RECURSIVE newAppSec(_, _, _)
newAppSec(marker, r, pos) ==
    LET ff == IndexByte(r, pos + 1, 255) IN
    IF ff = 0 THEN [ok |-> FALSE, data |-> <<>>, pos |-> Len(r)]
    ELSE IF ff + 1 > Len(r) THEN [ok |-> FALSE, data |-> <<>>, pos |-> Len(r)]
    ELSE IF r[ff + 1] # marker THEN newAppSec(marker, r, ff + 1)
    ELSE IF ff + 3 > Len(r) THEN [ok |-> FALSE, data |-> <<>>, pos |-> Len(r)]
    ELSE LET dataLen == (r[ff + 2] * 256 + r[ff + 3]) - 2 IN
         IF dataLen = 0 THEN newAppSec(marker, r, ff + 3)
         ELSE IF dataLen < 0 THEN [ok |-> TRUE, data |-> <<>>, pos |-> ff + 3]
         ELSE IF ff + 3 + dataLen > Len(r)
              THEN [ok |-> FALSE, data |-> <<>>, pos |-> Len(r)]
              ELSE [ok |-> TRUE, data |-> SubSeq(r, ff + 4, ff + 3 + dataLen),
                    pos |-> ff + 3 + dataLen]

appSecIteration_Stuck(marker, r, pos) ==
    LET ff == IndexByte(r, pos + 1, 255)
        eof == [done |-> TRUE, ok |-> FALSE, data |-> <<>>, pos |-> Len(r)]
        again(n) == [done |-> FALSE, ok |-> FALSE, data |-> <<>>, pos |-> n]
    IN IF ff = 0 THEN eof
       ELSE IF ff + 1 > Len(r) THEN eof
       ELSE IF r[ff + 1] # marker THEN again(pos)
       ELSE IF ff + 3 > Len(r) THEN eof
       ELSE LET dataLen == (r[ff + 2] * 256 + r[ff + 3]) - 2 IN
            IF dataLen = 0 THEN again(ff + 3)
            ELSE IF dataLen < 0 THEN [done |-> TRUE, ok |-> TRUE, data |-> <<>>, pos |-> ff + 3]
            ELSE IF ff + 3 + dataLen > Len(r) THEN eof
            ELSE [done |-> TRUE, ok |-> TRUE, data |-> SubSeq(r, ff + 4, ff + 3 + dataLen),
                  pos |-> ff + 3 + dataLen]

\* one iteration of the marker loop of newAppSec with the reader at pos, and
\* the read of the section body when the iteration leaves the loop
appSecIteration(marker, r, pos) ==
    LET ff == IndexByte(r, pos + 1, 255)
        eof == [done |-> TRUE, ok |-> FALSE, data |-> <<>>, pos |-> Len(r)]
        again(n) == [done |-> FALSE, ok |-> FALSE, data |-> <<>>, pos |-> n]
    IN IF ff = 0 THEN eof
       ELSE IF ff + 1 > Len(r) THEN eof
       ELSE IF r[ff + 1] # marker THEN again(ff + 1)
       ELSE IF ff + 3 > Len(r) THEN eof
       ELSE LET dataLen == (r[ff + 2] * 256 + r[ff + 3]) - 2 IN
            IF dataLen = 0 THEN again(ff + 3)
            ELSE IF dataLen < 0 THEN [done |-> TRUE, ok |-> TRUE, data |-> <<>>, pos |-> ff + 3]
            ELSE IF ff + 3 + dataLen > Len(r) THEN eof
            ELSE [done |-> TRUE, ok |-> TRUE, data |-> SubSeq(r, ff + 4, ff + 3 + dataLen),
                  pos |-> ff + 3 + dataLen]

exifReader(data) ==
    IF Len(data) < 6 THEN [ok |-> FALSE, data |-> <<>>]
    ELSE IF Slice(data, 0, 6) # ExifMarker THEN [ok |-> FALSE, data |-> <<>>]
    ELSE [ok |-> TRUE, data |-> SubSeqFrom(data, 7)]

checkExifHeader_NoLength(data) ==
    /\ Len(data) >= 4
    /\ \/ /\ data[1] = 77 /\ data[2] = 77
          /\ data[3] * 256 + data[4] = 42
       \/ /\ data[1] = 73 /\ data[2] = 73
          /\ data[4] * 256 + data[3] = 42

\* checkExifHeader: TRUE iff the error is nil
checkExifHeader(data) ==
    /\ Len(data) >= 8
    /\ \/ /\ data[1] = 77 /\ data[2] = 77
          /\ data[3] * 256 + data[4] = 42
       \/ /\ data[1] = 73 /\ data[2] = 73
          /\ data[4] * 256 + data[3] = 42

\* the scan of DecodeWithParseHeaderAndOptions: the first offset (0-based)
\* with a valid header, -1 when there is none
RECURSIVE scanHeader(_, _)
scanHeader(data, i) ==
    IF i >= Len(data) THEN -1
    ELSE IF checkExifHeader(SubSeqFrom(data, i + 1)) THEN i
    ELSE scanHeader(data, i + 1)

\* ------------------------------------------------------------- tags and fields
\* the directory table of a value that holds no directory
NoDirs == [o \in {} |-> <<>>]

\* little-endian encoding of the 32-bit integer n (two's complement)
le32(n) ==
    LET m == IF n >= 0 THEN n ELSE -n - 1
        b == <<m % 256, (m \div 256) % 256, (m \div 65536) % 256, (m \div 16777216) % 256>>
    IN IF n >= 0 THEN b ELSE [k \in 1..4 |-> 255 - b[k]]

RECURSIVE le32s(_)
le32s(ns) == IF ns = <<>> THEN <<>> ELSE le32(Head(ns)) \o le32s(Tail(ns))

uint32le(b) == b[1] + 256 * b[2] + 65536 * b[3] + 16777216 * b[4]

\* the string without its trailing NUL bytes
RECURSIVE TrimNul(_)
TrimNul(b) ==
    IF b # <<>> /\ b[Len(b)] = 0 THEN TrimNul(SubSeq(b, 1, Len(b) - 1)) ELSE b

\* tiff.Tag: Id, Type, Count, the raw value bytes Val, ValOffset, the decoded
\* integers intVals of an integer tag, and the directories tiff.DecodeDir
\* finds in Val (offset in Val -> tags)
Tag(id, type, count, val, ints) ==
    [Id |-> id, Type |-> type, Count |-> count, Val |-> val, ValOffset |-> 0,
     intVals |-> ints, Dirs |-> NoDirs]

AsciiTag(id, str) == Tag(id, "ASCII", Len(str) + 1, str \o <<0>>, <<>>)

LongTag(id, ints) == Tag(id, "LONG", Len(ints), le32s(ints), ints)

SLongTag(id, ints) == Tag(id, "SLONG", Len(ints), le32s(ints), ints)

UndefTag(id, val) == Tag(id, "UNDEFINED", Len(val), val, <<>>)

\* tiff.MakeTag(id, dt, 1, binary.LittleEndian, val)
\* (an integer of 2^31 or more has no representation here and is left out)
MakeTag(id, dt, val) ==
    Tag(id, dt, 1, val, IF dt = "LONG" /\ val[4] < 128 THEN <<uint32le(val)>> ELSE <<>>)

\* tag.Int64(i)
Int64Ok(tag, i) == tag.Type \in {"LONG", "SLONG"} /\ i < Len(tag.intVals)

Int64(tag, i) == tag.intVals[i + 1]

\* tag.StringVal(): the string, "" with an error for a non-ASCII tag
StringValOk(tag) == tag.Type = "ASCII"

StringVal(tag) == IF tag.Type = "ASCII" THEN TrimNul(tag.Val) ELSE <<>>

\* tiff.DecodeDir on a reader positioned at off
DecodeDirOk(dirs, off) == off \in DOMAIN dirs

DecodeDir(dirs, off) == dirs[off]

\* bytes.Reader.Seek(offset, 0) fails for a negative position only
SeekOk(offset) == offset >= 0

UnknownPrefix == "UnknownTag_"

HexDigit == <<"0", "1", "2", "3", "4", "5", "6", "7", "8", "9", "a", "b", "c", "d", "e", "f">>

\* fmt.Sprintf("%x", n)
RECURSIVE Hex(_)
Hex(n) == IF n < 16 THEN HexDigit[n + 1] ELSE Hex(n \div 16) \o HexDigit[(n % 16) + 1]

\* fieldMap[id], "" when the id is not in the table
Lookup(fieldMap, id) == IF id \in DOMAIN fieldMap THEN fieldMap[id] ELSE ""

\* x.Fields[name] = tag
Bind(fields, name, tag) ==
    [k \in DOMAIN fields \cup {name} |-> IF k = name THEN tag ELSE fields[k]]

\* x.Get(name): present iff bound
Has(fields, name) == name \in DOMAIN fields

EmptyFields == [k \in {} |-> UndefTag(0, <<>>)]

LoadTags_KeepFirst(fields, tags, fieldMap, showMissing) ==
    LET RECURSIVE load(_, _)
        load(f, i) ==
            IF i > Len(tags) THEN f
            ELSE LET name == Lookup(fieldMap, tags[i].Id)
                     bound == IF name = "" THEN UnknownPrefix \o Hex(tags[i].Id) ELSE name IN
                 IF (name = "" /\ ~showMissing) \/ Has(f, bound) THEN load(f, i + 1)
                 ELSE load(Bind(f, bound, tags[i]), i + 1)
    IN load(fields, 1)

LoadTags_SkipMissing(fields, tags, fieldMap, showMissing) ==
    LET RECURSIVE load(_, _)
        load(f, i) ==
            IF i > Len(tags) THEN f
            ELSE LET name == Lookup(fieldMap, tags[i].Id) IN
                 IF name = "" THEN load(f, i + 1)
                 ELSE load(Bind(f, name, tags[i]), i + 1)
    IN load(fields, 1)

\* x.LoadTags(d, fieldMap, showMissing) on the mapping x.Fields
LoadTags(fields, tags, fieldMap, showMissing) ==
    LET RECURSIVE load(_, _)
        load(f, i) ==
            IF i > Len(tags) THEN f
            ELSE LET name == Lookup(fieldMap, tags[i].Id) IN
                 IF name = ""
                 THEN IF ~showMissing THEN load(f, i + 1)
                      ELSE load(Bind(f, UnknownPrefix \o Hex(tags[i].Id), tags[i]), i + 1)
                 ELSE load(Bind(f, name, tags[i]), i + 1)
    IN load(fields, 1)

\* ---------------------------------------------------------------- field tables
\* models.ExifFields (the ids used here)
ExifFields ==
    (271 :> "Make") @@                          \* 0x010F
    (272 :> "Model") @@                         \* 0x0110
    (274 :> "Orientation") @@                   \* 0x0112
    (330 :> "SubIfdsPointer") @@                \* 0x014A
    (33434 :> "ExposureTime") @@                \* 0x829A
    (34665 :> "ExifIFDPointer") @@              \* 0x8769
    (34853 :> "GPSInfoIFDPointer") @@           \* 0x8825
    (37500 :> "MakerNote") @@                   \* 0x927C
    (40965 :> "InteroperabilityIFDPointer")     \* 0xA005

\* models.ThumbnailFields
ThumbnailFields ==
    (513 :> "ThumbJPEGInterchangeFormat") @@        \* 0x0201
    (514 :> "ThumbJPEGInterchangeFormatLength")     \* 0x0202

\* models.GpsFields
GpsFields ==
    (0 :> "GPSVersionID") @@
    (2 :> "GPSLatitude") @@
    (6 :> "GPSAltitude")

\* models.InteropFields
InteropFields ==
    (1 :> "InteroperabilityIndex")

makerNoteAppleFields ==
    (1 :> "Apple.MakerNoteVersion") @@  \* 0x0001
    (2 :> "Apple.AEMatrix") @@  \* 0x0002
    (3 :> "Apple.RunTime") @@  \* 0x0003
    (4 :> "Apple.AEStable") @@  \* 0x0004
    (5 :> "Apple.AETarget") @@  \* 0x0005
    (6 :> "Apple.AEAverage") @@  \* 0x0006
    (7 :> "Apple.AFStable") @@  \* 0x0007
    (8 :> "Apple.AccelerationVector") @@  \* 0x0008
    (9 :> "Apple.SISMethod") @@  \* 0x0009
    (10 :> "Apple.HDRImageType ") @@  \* 0x000a
    (11 :> "Apple.BurstUUID") @@  \* 0x000b
    (12 :> "Apple.FocusDistanceRange") @@  \* 0x000c
    (13 :> "Apple.SphereHealthAverageCurrent") @@  \* 0x000d
    (14 :> "Apple.Orientation") @@  \* 0x000e
    (15 :> "Apple.OISMode") @@  \* 0x000f
    (16 :> "Apple.SphereStatus") @@  \* 0x0010
    (17 :> "Apple.ContentIdentifier") @@  \* 0x0011
    (18 :> "Apple.QRMOutputType") @@  \* 0x0012
    (19 :> "Apple.SphereExternalForceOffset") @@  \* 0x0013
    (20 :> "Apple.ImageCaptureType") @@  \* 0x0014
    (21 :> "Apple.ImageUniqueID") @@  \* 0x0015
    (22 :> "Apple.PhotosOriginatingSignature") @@  \* 0x0016
    (23 :> "Apple.PhotosOriginatingSignature") @@  \* 0x0017
    (24 :> "Apple.PhotosOriginatingSignature") @@  \* 0x0018
    (25 :> "Apple.PhotosOriginatingSignature") @@  \* 0x0019
    (26 :> "Apple.QualityHint") @@  \* 0x001a
    (27 :> "Apple.PhotosRenderEffect") @@  \* 0x001b
    (28 :> "Apple.BracketedCaptureSequenceNumber") @@  \* 0x001c
    (29 :> "Apple.LuminanceNoiseAmplitude") @@  \* 0x001d
    (30 :> "Apple.OriginatingAppID") @@  \* 0x001e
    (31 :> "Apple.PhotosAppFeatureFlags") @@  \* 0x001f
    (32 :> "Apple.ImageCaptureRequestID") @@  \* 0x0020
    (33 :> "Apple.HDRHeadroom") @@  \* 0x0021
    (35 :> "Apple.AFPerformance") @@  \* 0x0023
    (37 :> "Apple.SceneFlags") @@  \* 0x0025
    (38 :> "Apple.SignalToNoiseRatioType") @@  \* 0x0026
    (39 :> "Apple.SignalToNoiseRatio") @@  \* 0x0027
    (43 :> "Apple.PhotoIdentifier") @@  \* 0x002b
    (45 :> "Apple.ColorTemperature") @@  \* 0x002d
    (46 :> "Apple.CameraType") @@  \* 0x002e
    (47 :> "Apple.FocusPosition") @@  \* 0x002F
    (48 :> "Apple.HDRGain") @@  \* 0x0030
    (56 :> "Apple.AFMeasuredDepth") @@  \* 0x0038
    (61 :> "Apple.AFConfidence") @@  \* 0x003D
    (62 :> "Apple.ColorCorrectionMatrix") @@  \* 0x003E
    (63 :> "Apple.GreenGhostMitigationStatus") @@  \* 0x003F
    (64 :> "Apple.SemanticStyle") @@  \* 0x0040
    (65 :> "Apple.SemanticStyleRenderingVer") @@  \* 0x0041
    (66 :> "Apple.SemanticStylePreset") @@  \* 0x0042
    (78 :> "Apple.Apple_0x004e") @@  \* 0x004e
    (79 :> "Apple.Apple_0x004f")  \* 0x004f

makerNoteCanonFields ==
    (0 :> "Canon.0x0000") @@  \* 0x0000
    (1 :> "Canon.CameraSettings") @@  \* 0x0001
    (2 :> "FocalLength") @@  \* 0x0002
    (3 :> "Canon.0x0003") @@  \* 0x0003
    (4 :> "Canon.ShotInfo") @@  \* 0x0004
    (5 :> "Panorama") @@  \* 0x0005
    (6 :> "Canon.ImageType") @@  \* 0x0006
    (7 :> "FirmwareVersion") @@  \* 0x0007
    (8 :> "FileNumber") @@  \* 0x0008
    (9 :> "OwnerName") @@  \* 0x0009
    (12 :> "Canon.SerialNumber") @@  \* 0x000c
    (13 :> "CameraInfo") @@  \* 0x000d
    (15 :> "CustomFunctions") @@  \* 0x000f
    (16 :> "ModelID") @@  \* 0x0010
    (18 :> "PictureInfo") @@  \* 0x0012
    (19 :> "ThumbnailImageValidArea") @@  \* 0x0013
    (21 :> "SerialNumberFormat") @@  \* 0x0015
    (26 :> "SuperMacro") @@  \* 0x001a
    (38 :> "Canon.AFInfo") @@  \* 0x0026
    (40 :> "Canon.ImageUniqueID") @@  \* 0x0028
    (53 :> "Canon.TimeInfo") @@  \* 0x0035
    (131 :> "OriginalDecisionDataOffset") @@  \* 0x0083
    (164 :> "WhiteBalanceTable") @@  \* 0x00a4
    (147 :> "Canon.FileInfo") @@  \* 0x0093
    (149 :> "LensModel") @@  \* 0x0095
    (150 :> "InternalSerialNumber") @@  \* 0x0096
    (151 :> "DustRemovalData") @@  \* 0x0097
    (153 :> "CustomFunctions") @@  \* 0x0099
    (160 :> "ProcessingInfo") @@  \* 0x00a0
    (170 :> "MeasuredColor") @@  \* 0x00aa
    (180 :> "ColorSpace") @@  \* 0x00b4
    (181 :> "Canon.0x00b5") @@  \* 0x00b5
    (182 :> "Canon.PreviewImageInfo") @@  \* 0x00b6
    (192 :> "Canon.0x00c0") @@  \* 0x00c0
    (193 :> "Canon.0x00c1") @@  \* 0x00c1
    (208 :> "VRDOffset") @@  \* 0x00d0
    (224 :> "SensorInfo") @@  \* 0x00e0
    (16385 :> "ColorData")  \* 0x4001

\* the V3 table of the Nikon parser (the ids used here)
makerNoteNikon3Fields ==
    (1 :> "Nikon3.Version") @@
    (2 :> "Nikon3.ISOSpeed")

SubIFD0Fields ==
    (254 :> "SubIfd0.SubfileType") @@           \* 0x00fe
    (256 :> "SubIfd0.Width") @@                 \* 0x0100
    (257 :> "SubIfd0.ImageLength") @@           \* 0x0101
    (259 :> "SubIfd0.Compression") @@           \* 0x0103
    (273 :> "SubIfd0.PreviewImageStart") @@     \* 0x0111
    (279 :> "SubIfd0.PreviewImageLength") @@    \* 0x0117
    (50970 :> "SubIfd0.PreviewColorSpace") @@   \* 0xc71a
    (50971 :> "SubIfd0.PreviewDateTime")        \* 0xc71b

SubIFD1Fields ==
    (254 :> "SubIfd1.SubfileType") @@
    (256 :> "SubIfd1.Width") @@
    (257 :> "SubIfd1.ImageLength") @@
    (259 :> "SubIfd1.Compression") @@
    (273 :> "SubIfd1.PreviewImageStart") @@
    (279 :> "SubIfd1.PreviewImageLength") @@
    (50970 :> "SubIfd1.PreviewColorSpace") @@
    (50971 :> "SubIfd1.PreviewDateTime")

SubIFD2Fields ==
    (254 :> "SubIfd2.SubfileType") @@
    (256 :> "SubIfd2.Width") @@
    (257 :> "SubIfd2.ImageLength") @@
    (259 :> "SubIfd2.Compression") @@
    (273 :> "SubIfd2.JpgFromRawStart") @@
    (279 :> "SubIfd2.JpgFromRawLength") @@
    (50970 :> "SubIfd2.PreviewColorSpace") @@
    (50971 :> "SubIfd2.PreviewDateTime")

sony0x9050 == "Sony.0x9050"

makerNoteSonyFields ==
    (36944 :> sony0x9050)                       \* 0x9050

Sony0x9050BinaryTags == <<
    \* [0] offset 0x3a, models: ILCA-99M2 ILCE-1 ILCE-6100 ILCE-6300 ILCE-6400 ILCE-6500 ILCE-6600 ILCE-7C ILCE-7M3 ILCE-7M4 ILCE-7RM2 ILCE-7RM3 ILCE-7RM3A ILCE-7RM4 ILCE-7RM4A ILCE-7RM5 ILCE-7SM2 ILCE-7SM3 ILCE-9 ILCE-9M2 ILME-FX3 ZV-E10
    [fieldName |-> "Sony.ShutterCount", offset |-> 58, dataType |-> "SonyUint24", length |-> 0, ifNull |-> FALSE,
     models |-> <<<<73,76,67,65,45,57,57,77,50>>, <<73,76,67,69,45,49>>,
                  <<73,76,67,69,45,54,49,48,48>>, <<73,76,67,69,45,54,51,48,48>>,
                  <<73,76,67,69,45,54,52,48,48>>, <<73,76,67,69,45,54,53,48,48>>,
                  <<73,76,67,69,45,54,54,48,48>>, <<73,76,67,69,45,55,67>>,
                  <<73,76,67,69,45,55,77,51>>, <<73,76,67,69,45,55,77,52>>,
                  <<73,76,67,69,45,55,82,77,50>>, <<73,76,67,69,45,55,82,77,51>>,
                  <<73,76,67,69,45,55,82,77,51,65>>, <<73,76,67,69,45,55,82,77,52>>,
                  <<73,76,67,69,45,55,82,77,52,65>>, <<73,76,67,69,45,55,82,77,53>>,
                  <<73,76,67,69,45,55,83,77,50>>, <<73,76,67,69,45,55,83,77,51>>,
                  <<73,76,67,69,45,57>>, <<73,76,67,69,45,57,77,50>>, <<73,76,77,69,45,70,88,51>>,
                  <<90,86,45,69,49,48>>>>],
    \* [1] offset 0x50, models: ILCE-1 ILCE-6100 ILCE-6400 ILCE-6600 ILCE-7C ILCE-7M4 ILCE-7RM4 ILCE-7RM4A ILCE-7RM5 ILCE-7SM3 ILCE-9M2 ILME-FX3 ZV-E10
    [fieldName |-> "Sony.ShutterCount2", offset |-> 80, dataType |-> "SonyUint24", length |-> 0, ifNull |-> FALSE,
     models |-> <<<<73,76,67,69,45,49>>, <<73,76,67,69,45,54,49,48,48>>,
                  <<73,76,67,69,45,54,52,48,48>>, <<73,76,67,69,45,54,54,48,48>>,
                  <<73,76,67,69,45,55,67>>, <<73,76,67,69,45,55,77,52>>,
                  <<73,76,67,69,45,55,82,77,52>>, <<73,76,67,69,45,55,82,77,52,65>>,
                  <<73,76,67,69,45,55,82,77,53>>, <<73,76,67,69,45,55,83,77,51>>,
                  <<73,76,67,69,45,57,77,50>>, <<73,76,77,69,45,70,88,51>>, <<90,86,45,69,49,48>>>>],
    \* [2] offset 0x52, models: ILCE-7M3 ILCE-7RM3 ILCE-7RM3A
    [fieldName |-> "Sony.ShutterCount2", offset |-> 82, dataType |-> "SonyUint24", length |-> 0, ifNull |-> FALSE,
     models |-> <<<<73,76,67,69,45,55,77,51>>, <<73,76,67,69,45,55,82,77,51>>,
                  <<73,76,67,69,45,55,82,77,51,65>>>>],
    \* [3] offset 0x58, models: ILCE-6300 ILCE-6400 ILCE-6500 ILCE-6600 ILCE-7C ILCE-7M3 ILCE-7RM2 ILCE-7RM3 ILCE-7RM3A ILCE-7RM4 ILCE-7RM4A ILCE-7SM2 ILCE-9 ILCE-9M2 ILCA-99M2 ZV-E10
    [fieldName |-> "Sony.ShutterCount2", offset |-> 88, dataType |-> "SonyUint24", length |-> 0, ifNull |-> FALSE,
     models |-> <<<<73,76,67,69,45,54,51,48,48>>, <<73,76,67,69,45,54,52,48,48>>,
                  <<73,76,67,69,45,54,53,48,48>>, <<73,76,67,69,45,54,54,48,48>>,
                  <<73,76,67,69,45,55,67>>, <<73,76,67,69,45,55,77,51>>,
                  <<73,76,67,69,45,55,82,77,50>>, <<73,76,67,69,45,55,82,77,51>>,
                  <<73,76,67,69,45,55,82,77,51,65>>, <<73,76,67,69,45,55,82,77,52>>,
                  <<73,76,67,69,45,55,82,77,52,65>>, <<73,76,67,69,45,55,83,77,50>>,
                  <<73,76,67,69,45,57>>, <<73,76,67,69,45,57,77,50>>,
                  <<73,76,67,65,45,57,57,77,50>>, <<90,86,45,69,49,48>>>>],
    \* [4] offset 0x019f, models: ILCE-6100 ILCE-6400 ILCE-6600 ILCE-7C ILCE-7M3 ILCE-7RM3 ILCE-7RM3A ILCE-7RM4 ILCE-7RM4A ILCE-9 ILCE-9M2 ZV-E10
    [fieldName |-> "Sony.ShutterCount3", offset |-> 415, dataType |-> "SonyUint32", length |-> 0, ifNull |-> FALSE,
     models |-> <<<<73,76,67,69,45,54,49,48,48>>, <<73,76,67,69,45,54,52,48,48>>,
                  <<73,76,67,69,45,54,54,48,48>>, <<73,76,67,69,45,55,67>>,
                  <<73,76,67,69,45,55,77,51>>, <<73,76,67,69,45,55,82,77,51>>,
                  <<73,76,67,69,45,55,82,77,51,65>>, <<73,76,67,69,45,55,82,77,52>>,
                  <<73,76,67,69,45,55,82,77,52,65>>, <<73,76,67,69,45,57>>,
                  <<73,76,67,69,45,57,77,50>>, <<90,86,45,69,49,48>>>>],
    \* [5] offset 0x01cb, models: ILCE-7RM2 ILCE-7SM2
    [fieldName |-> "Sony.ShutterCount3", offset |-> 459, dataType |-> "SonyUint32", length |-> 0, ifNull |-> FALSE,
     models |-> <<<<73,76,67,69,45,55,82,77,50>>, <<73,76,67,69,45,55,83,77,50>>>>],
    \* [6] offset 0x01cd, models: ILCE-6300 ILCE-6500 ILCA-99M2
    [fieldName |-> "Sony.ShutterCount3", offset |-> 461, dataType |-> "SonyUint32", length |-> 0, ifNull |-> FALSE,
     models |-> <<<<73,76,67,69,45,54,51,48,48>>, <<73,76,67,69,45,54,53,48,48>>,
                  <<73,76,67,65,45,57,57,77,50>>>>],
    \* [7] offset 0x000a, models: ILCE-6700 ILCE-7CM2 ILCE-7CR
    [fieldName |-> "Sony.ShutterCount3", offset |-> 10, dataType |-> "SonyUint24", length |-> 0, ifNull |-> FALSE,
     models |-> <<<<73,76,67,69,45,54,55,48,48>>, <<73,76,67,69,45,55,67,77,50>>,
                  <<73,76,67,69,45,55,67,82>>>>],
    \* [8] offset 0x4c, models: ILCE-7 ILCE-7R ILCE-7S ILCE-7M2 ILCE-5000 ILCE-5100 ILCE-6000 ILCE-WX1
    [fieldName |-> "Sony.ShutterCount2", offset |-> 76, dataType |-> "SonyUint24", length |-> 0, ifNull |-> FALSE,
     models |-> <<<<73,76,67,69,45,55>>, <<73,76,67,69,45,55,82>>, <<73,76,67,69,45,55,83>>,
                  <<73,76,67,69,45,55,77,50>>, <<73,76,67,69,45,53,48,48,48>>,
                  <<73,76,67,69,45,53,49,48,48>>, <<73,76,67,69,45,54,48,48,48>>,
                  <<73,76,67,69,45,87,88,49>>>>],
    \* [9] offset 0x32, models: (none)
    [fieldName |-> "Sony.ShutterCount", offset |-> 50, dataType |-> "SonyUint24", length |-> 0, ifNull |-> FALSE,
     models |-> <<>>],
    \* [10] offset 0x01a0, models: ILCE-5100 ILCE-QX1 ILCA-68 ILCA-77M2
    [fieldName |-> "Sony.ShutterCount3", offset |-> 416, dataType |-> "SonyUint32", length |-> 0, ifNull |-> FALSE,
     models |-> <<<<73,76,67,69,45,53,49,48,48>>, <<73,76,67,69,45,81,88,49>>,
                  <<73,76,67,65,45,54,56>>, <<73,76,67,65,45,55,55,77,50>>>>],
    \* [11] offset 0x01aa, models: SLT-A58 SLT-A99 SLT-A99V HV NEX-3N NEX-5R NEX-5T NEX-6 NEX-VG900 NEX-VG30E ILCE-3000 ILCE-3500 ILCE-5000
    [fieldName |-> "Sony.ShutterCount3", offset |-> 426, dataType |-> "SonyUint32", length |-> 0, ifNull |-> FALSE,
     models |-> <<<<83,76,84,45,65,53,56>>, <<83,76,84,45,65,57,57>>, <<83,76,84,45,65,57,57,86>>,
                  <<72,86>>, <<78,69,88,45,51,78>>, <<78,69,88,45,53,82>>, <<78,69,88,45,53,84>>,
                  <<78,69,88,45,54>>, <<78,69,88,45,86,71,57,48,48>>,
                  <<78,69,88,45,86,71,51,48,69>>, <<73,76,67,69,45,51,48,48,48>>,
                  <<73,76,67,69,45,51,53,48,48>>, <<73,76,67,69,45,53,48,48,48>>>>],
    \* [12] offset 0x01bd, models: SLT-A37 SLT-A37V SLT-A57 SLT-A57V SLT-A65 SLT-A65V SLT-A77 SLT-A77V Lunar NEX-F3 NEX-5N NEX-7 NEX-VG20E
    [fieldName |-> "Sony.ShutterCount3", offset |-> 445, dataType |-> "SonyUint32", length |-> 0, ifNull |-> FALSE,
     models |-> <<<<83,76,84,45,65,51,55>>, <<83,76,84,45,65,51,55,86>>, <<83,76,84,45,65,53,55>>,
                  <<83,76,84,45,65,53,55,86>>, <<83,76,84,45,65,54,53>>,
                  <<83,76,84,45,65,54,53,86>>, <<83,76,84,45,65,55,55>>,
                  <<83,76,84,45,65,55,55,86>>, <<76,117,110,97,114>>, <<78,69,88,45,70,51>>,
                  <<78,69,88,45,53,78>>, <<78,69,88,45,55>>, <<78,69,88,45,86,71,50,48,69>>>>],
    \* [13] offset 0x7c, models: ILCE- ILCA- Lunar NEX SLT- HV
    [fieldName |-> "Sony.InternalSerialNumber", offset |-> 124, dataType |-> "SonyUint32", length |-> 0, ifNull |-> FALSE,
     models |-> <<<<73,76,67,69,45>>, <<73,76,67,65,45>>, <<76,117,110,97,114>>, <<78,69,88>>,
                  <<83,76,84,45>>, <<72,86>>>>],
    \* [14] offset 0x7c, models: ILCE-1
    [fieldName |-> "Sony.InternalSerialNumber", offset |-> 124, dataType |-> "SonyHexString", length |-> 6, ifNull |-> FALSE,
     models |-> <<<<73,76,67,69,45,49>>>>],
    \* [15] offset 0xf0, models: SLT- HV ILCA-
    [fieldName |-> "Sony.InternalSerialNumber2", offset |-> 240, dataType |-> "SonyHexString", length |-> 5, ifNull |-> FALSE,
     models |-> <<<<83,76,84,45>>, <<72,86>>, <<73,76,67,65,45>>>>],
    \* [16] offset 0x38, models: ZV-E10M2
    [fieldName |-> "Sony.InternalSerialNumber", offset |-> 56, dataType |-> "SonyHexString", length |-> 6, ifNull |-> FALSE,
     models |-> <<<<90,86,45,69,49,48,77,50>>>>],
    \* [17] offset 0x88, models: ILCA-99M2 ILCE-1 ILCE-6100 ILCE-6300 ILCE-6400 ILCE-6500 ILCE-6600 ILCE-7C ILCE-7M3 ILCE-7M4 ILCE-7RM2 ILCE-7RM3 ILCE-7RM3A ILCE-7RM4 ILCE-7RM4A ILCE-7RM5 ILCE-7SM2 ILCE-7SM3 ILCE-9 ILCE-9M2 ILME-FX3 ZV-E10
    [fieldName |-> "Sony.InternalSerialNumber", offset |-> 136, dataType |-> "SonyHexString", length |-> 6, ifNull |-> FALSE,
     models |-> <<<<73,76,67,65,45,57,57,77,50>>, <<73,76,67,69,45,49>>,
                  <<73,76,67,69,45,54,49,48,48>>, <<73,76,67,69,45,54,51,48,48>>,
                  <<73,76,67,69,45,54,52,48,48>>, <<73,76,67,69,45,54,53,48,48>>,
                  <<73,76,67,69,45,54,54,48,48>>, <<73,76,67,69,45,55,67>>,
                  <<73,76,67,69,45,55,77,51>>, <<73,76,67,69,45,55,77,52>>,
                  <<73,76,67,69,45,55,82,77,50>>, <<73,76,67,69,45,55,82,77,51>>,
                  <<73,76,67,69,45,55,82,77,51,65>>, <<73,76,67,69,45,55,82,77,52>>,
                  <<73,76,67,69,45,55,82,77,52,65>>, <<73,76,67,69,45,55,82,77,53>>,
                  <<73,76,67,69,45,55,83,77,50>>, <<73,76,67,69,45,55,83,77,51>>,
                  <<73,76,67,69,45,57>>, <<73,76,67,69,45,57,77,50>>, <<73,76,77,69,45,70,88,51>>,
                  <<90,86,45,69,49,48>>>>]
>>

\* ------------------------------------------------------------ Sony 0x9050 blob
descrambleTable_NoFixedPoints ==
    [j \in 0..255 |->
        LET written == {v \in 0..248 : (v * v * v) % 249 = j} IN
        IF written = {} THEN 0
        ELSE CHOOSE v \in written : \A w \in written : w <= v]

\* the unscrambling table after the loop "tbl[i*i*i%249] = i" for i < 249 and
\* "tbl[i] = i" for the others: an index below 249 holds the last (largest) i
\* written to it, 0 when none was
descrambleTable ==
    [j \in 0..255 |->
        IF j >= 249 THEN j
        ELSE LET written == {v \in 0..248 : (v * v * v) % 249 = j} IN
             IF written = {} THEN 0
             ELSE CHOOSE v \in written : \A w \in written : w <= v]

\* descramble0x9050(val): the new contents of val
descramble0x9050(val) == [k \in 1..Len(val) |-> descrambleTable[val[k]]]

checkModel_AnyModel(bt, model) == TRUE

checkModel(bt, model) ==
    \E k \in 1..Len(bt.models) : HasPrefix(model, bt.models[k])

HexChar == <<48, 49, 50, 51, 52, 53, 54, 55, 56, 57, 97, 98, 99, 100, 101, 102>>

\* hex.Encode
RECURSIVE hexEncode(_)
hexEncode(b) ==
    IF b = <<>> THEN <<>>
    ELSE <<HexChar[(b[1] \div 16) + 1], HexChar[(b[1] % 16) + 1]>> \o hexEncode(Tail(b))

sonyEncode(bt, buf) ==
    CASE bt.dataType = "SonyUint24" ->
            [dt |-> "LONG",
             val |-> IF Len(buf) >= bt.offset + 3
                     THEN <<buf[bt.offset + 1], buf[bt.offset + 2], buf[bt.offset + 3], 0>>
                     ELSE Zeros(4)]
      [] bt.dataType = "SonyUint32" ->
            [dt |-> "LONG",
             val |-> IF Len(buf) >= bt.offset + 4
                     THEN <<buf[bt.offset + 1], buf[bt.offset + 2],
                            buf[bt.offset + 3], buf[bt.offset + 4]>>
                     ELSE Zeros(4)]
      [] bt.dataType = "SonyHexString" ->
            [dt |-> "ASCII",
             val |-> IF Len(buf) >= bt.offset + bt.length
                     THEN hexEncode(Slice(buf, bt.offset, bt.offset + bt.length)) \o <<0>>
                     ELSE Zeros(2 * bt.length + 1)]

checkNotNull(b) == \E k \in 1..Len(b) : b[k] # 0

\* makeBinaryTag: emitted iff .ok; the pseudo-tag has the list index as id
makeBinaryTagOk(bt, model, buf) ==
    /\ checkModel(bt, model)
    /\ bt.ifNull \/ checkNotNull(sonyEncode(bt, buf).val)

makeBinaryTag(bt, model, buf, id) ==
    MakeTag(id, sonyEncode(bt, buf).dt, sonyEncode(bt, buf).val)

\* ----------------------------------------------------------------------- inputs
\* A TIFF payload: the 8-byte header and two bytes standing for the rest.
TiffLE == <<73, 73, 42, 0, 8, 0, 0, 0, 0, 0>>
TiffBE == <<77, 77, 0, 42, 0, 0, 0, 8, 0, 0>>

RECURSIVE Filler(_)
Filler(n) == IF n <= 0 THEN <<>> ELSE <<1>> \o Filler(n - 1)

\* SOI, pad filler bytes, the APP1 marker, the big-endian length, the body
JpegStream(pad, body) ==
    <<255, 216>> \o Filler(pad) \o <<255, jpegAPP1>>
        \o <<(Len(body) + 2) \div 256, (Len(body) + 2) % 256>> \o body

HeifHeader == <<0, 0, 0, 24, 102, 116, 121, 112>>

Streams ==
    {TiffLE, TiffBE,
     ExifMarker \o TiffLE,
     <<69, 120, 105, 102, 1, 1>> \o TiffLE,
     HeifHeader \o TiffLE,
     HeifHeader,
     <<1, 2, 3>> \o TiffBE,
     <<73, 73, 42>>,
     <<73, 73, 42, 0, 8, 0>>,
     <<77, 77>> \o TiffLE \o TiffBE,
     <<>>,
     JpegStream(0, <<74, 70, 73, 70>>),
     <<255, 216>> \o Filler(7)}
    \cup {JpegStream(p, ExifMarker \o TiffLE) : p \in 0..MaxPad}

\* the sub-directories of the TIFF payload, by offset
ExifDir ==
    <<Tag(33434, "RATIONAL", 1, le32s(<<1, 50>>), <<>>),
      LongTag(274, <<6>>),
      UndefTag(61166, <<7>>),
      LongTag(34665, <<1>>)>>

GPSDir ==
    <<Tag(0, "BYTE", 4, <<2, 3, 0, 0>>, <<>>),
      Tag(6, "RATIONAL", 1, le32s(<<1500, 10>>), <<>>),
      UndefTag(61168, <<2>>)>>

InteropDir ==
    <<AsciiTag(1, <<82, 57, 56>>), UndefTag(61169, <<3>>), AsciiTag(1, <<84, 72, 77>>)>>

SubIfdDir == <<LongTag(256, <<640>>), LongTag(257, <<480>>)>>

RawDirs == (1 :> ExifDir) @@ (2 :> GPSDir) @@ (3 :> InteropDir) @@ (4 :> SubIfdDir)

ThumbnailDir ==
    <<LongTag(513, <<90>>), LongTag(514, <<12>>), LongTag(259, <<6>>), UndefTag(61167, <<1>>)>>

\* a pointer field: absent, to its directory, to an offset that holds no
\* directory, negative (signed type), or of a type with no integer value
PtrKinds == {"absent", "good", "bad", "neg", "nonint"}

PtrTag(id, kind, offset) ==
    CASE kind = "absent" -> <<>>
      [] kind = "good" -> <<LongTag(id, <<offset>>)>>
      [] kind = "bad" -> <<LongTag(id, <<9>>)>>
      [] kind = "neg" -> <<SLongTag(id, <<-1>>)>>
      [] kind = "nonint" -> <<AsciiTag(id, <<49>>)>>

\* the scrambled 0x9050 blob: 64 bytes, non-zero at 0x32..0x34 and 0x3a..0x3c
SonyBlob == [k \in 1..64 |-> IF k \in {51, 52, 53} THEN 8
                             ELSE IF k \in {59, 60} THEN 27 ELSE 0]

\* a longer scrambled blob: 96 bytes that descramble to 1, 2 and 3 at 0x4c,
\* 0x52 and 0x58
SonyLongBlob == [k \in 1..96 |-> IF k = 77 THEN 1
                                 ELSE IF k = 83 THEN 8
                                 ELSE IF k = 89 THEN 27 ELSE 0]

\* the directory nested in a maker note
AppleDir ==
    <<LongTag(1, <<14>>), UndefTag(3, <<1, 2>>), LongTag(153, <<5>>),
      UndefTag(22, <<65, 66>>), LongTag(23, <<2>>)>>

PlainDir ==
    <<LongTag(1, <<3>>), AsciiTag(6, <<67, 82, 50>>), UndefTag(36944, SonyBlob),
      LongTag(30583, <<1>>)>>

SonyLongDir == <<UndefTag(36944, SonyLongBlob)>>

NikonDir == <<UndefTag(1, <<48, 50, 49, 48>>), LongTag(2, <<100>>)>>

MakerNoteTag(val, dirs) ==
    [UndefTag(37500, val) EXCEPT !.ValOffset = 100, !.Dirs = dirs]

MakerNoteKinds ==
    {"absent", "AppleOK", "AppleBad", "AppleV2", "Short", "Plain", "PlainBad",
     "SonyDSC", "SonyLong", "NikonOK"}

MakerNote(kind) ==
    CASE kind = "absent" -> <<>>
      [] kind = "AppleOK" -> <<MakerNoteTag(AppleSignature \o <<0, 0>>, 14 :> AppleDir)>>
      [] kind = "AppleBad" -> <<MakerNoteTag(AppleSignature \o <<0, 0, 255, 255>>, NoDirs)>>
      [] kind = "AppleV2" ->
            <<MakerNoteTag(SubSeq(AppleSignature, 1, 11) \o <<2, 0, 0>>, 14 :> AppleDir)>>
      [] kind = "Short" -> <<MakerNoteTag(<<65, 112, 112>>, NoDirs)>>
      [] kind = "Plain" -> <<MakerNoteTag(<<4, 0>> \o Zeros(12), 0 :> PlainDir)>>
      [] kind = "PlainBad" -> <<MakerNoteTag(<<255, 255>> \o Zeros(12), NoDirs)>>
      [] kind = "SonyDSC" ->
            <<MakerNoteTag(SigSonyDSC \o <<0, 0, 4, 0>>, 12 :> PlainDir)>>
      [] kind = "SonyLong" -> <<MakerNoteTag(<<4, 0>> \o Zeros(12), 0 :> SonyLongDir)>>
      [] kind = "NikonOK" ->
            <<MakerNoteTag(StrNikon \o <<0, 2, 16, 0, 0>> \o TiffLE, 10 :> NikonDir)>>

StrILCE7M3 == <<73, 76, 67, 69, 45, 55, 77, 51>>
StrDSC == <<68, 83, 67, 45, 82, 88>>

Makes == {<<>>, StrCanon, StrSONY, StrNikon}
Models == {<<>>, StrILCE7M3, StrDSC}
SubIfdKinds == {<<>>, <<4>>, <<4, 9>>}

StrTag(id, str) == IF str = <<>> THEN <<>> ELSE <<AsciiTag(id, str)>>

PrimaryDir(c) ==
    <<LongTag(274, <<1>>), UndefTag(61166, <<9>>)>>
        \o StrTag(271, c.make) \o StrTag(272, c.model)
        \o PtrTag(34665, c.exif, 1) \o PtrTag(34853, c.gps, 2) \o PtrTag(40965, c.iop, 3)
        \o (IF c.subifds = <<>> THEN <<>> ELSE <<LongTag(330, c.subifds)>>)
        \o MakerNote(c.mn)

\* what tiff.Decode makes of the payload: failure, or ndirs directories
\* (choice keeps the parameters the primary directory was built from)
Content(ok, ndirs, c) ==
    [ok |-> ok, choice |-> c,
     Dirs |-> IF ndirs = 0 THEN <<>>
              ELSE IF ndirs = 1 THEN <<PrimaryDir(c)>>
              ELSE <<PrimaryDir(c), ThumbnailDir>>]

Choice(exif, gps, iop, make, model, mn, subifds) ==
    [exif |-> exif, gps |-> gps, iop |-> iop, make |-> make, model |-> model,
     mn |-> mn, subifds |-> subifds]

BaseChoice == Choice("good", "good", "good", StrCanon, <<>>, "Plain", <<>>)

Opts(keep, max) == [KeepUnknownTags |-> keep, MaxExifSize |-> max]

Input(stream, content, opts) == [stream |-> stream, content |-> content, opts |-> opts]

\* every container, with a payload that decodes, fails or has no directory
ContainerInputs ==
    {Input(s, Content(ok, n, BaseChoice), Opts(FALSE, m)) :
        s \in Streams, ok \in BOOLEAN, n \in {0, 1}, m \in {0, SmallMaxExifSize}}

\* every combination of the three sub-IFD pointers
PointerInputs ==
    {Input(TiffLE, Content(TRUE, n, Choice(e, g, i, <<>>, <<>>, "absent", <<>>)), Opts(k, 0)) :
        e \in PtrKinds, g \in PtrKinds, i \in PtrKinds, n \in {1, 2}, k \in BOOLEAN}

\* every combination of Make, Model, maker note and SubIFD pointer
VendorInputs ==
    {Input(TiffLE, Content(TRUE, 1, Choice("absent", g, "absent", mk, md, mn, si)), Opts(k, 0)) :
        g \in {"absent", "bad"}, mk \in Makes, md \in Models, mn \in MakerNoteKinds,
        si \in SubIfdKinds, k \in BOOLEAN}

Inputs == ContainerInputs \cup PointerInputs \cup VendorInputs

\* the inputs of two concurrent decodes
ConcInputs ==
    {Input(TiffLE, Content(TRUE, 1, Choice("good", g, "absent", mk, StrILCE7M3, "Plain", <<>>)),
           Opts(FALSE, 0)) : g \in {"good", "bad"}, mk \in {StrSONY, StrCanon}}

\* ----------------------------------------------------------------------- errors
NoTe == [k \in {} |-> ""]

NilErr == [type |-> "nil", msg |-> "", te |-> NoTe]

\* errors.New / fmt.Errorf
ErrorString(msg) == [type |-> "errorString", msg |-> msg, te |-> NoTe]

decodeError(cause) == [type |-> "decodeError", msg |-> cause.msg, te |-> NoTe]

TagNotPresentError(name) == [type |-> "TagNotPresentError", msg |-> name, te |-> NoTe]

\* the aggregated error of the default parser: stage -> message
tiffErrors(t) == [type |-> "tiffErrors", msg |-> "", te |-> t]

IsNil(err) == err.type = "nil"

IsCriticalError(err) == err.type # "tiffErrors"

IsExifError(err) == err.type = "tiffErrors" /\ loadExif \in DOMAIN err.te

IsGPSError(err) == err.type = "tiffErrors" /\ loadGPS \in DOMAIN err.te

IsInteroperabilityError(err) ==
    err.type = "tiffErrors" /\ loadInteroperability \in DOMAIN err.te

IsTagNotPresentError(err) == err.type = "TagNotPresentError"

\* ------------------------------------------------------------------ Exif result
NilTiff == [isNil |-> TRUE, Dirs |-> <<>>]

NoRaw == [bytes |-> <<>>, dirs |-> NoDirs]

NilExif ==
    [isNil |-> TRUE, Tiff |-> NilTiff, Fields |-> EmptyFields, Raw |-> NoRaw,
     opts |-> Opts(FALSE, 0)]

New(tif, raw, opts) ==
    [isNil |-> FALSE, Tiff |-> tif, Fields |-> EmptyFields, Raw |-> raw, opts |-> opts]

\* opts.MaxExifSize after the default was applied
MaxExifSizeOf(opts) == IF opts.MaxExifSize <= 0 THEN exifLengthCutoff ELSE opts.MaxExifSize

\* tiff.Decode(data): nil (with an error) unless data is a complete TIFF
\* payload whose directories decode
tiffDecode(data, content) ==
    IF data \in {TiffLE, TiffBE} /\ content.ok
    THEN [isNil |-> FALSE, Dirs |-> content.Dirs]
    ELSE NilTiff

\* the raw buffer: its bytes and the directories tiff.DecodeDir finds in it
RawOf(data) ==
    [bytes |-> data, dirs |-> IF data \in {TiffLE, TiffBE} THEN RawDirs ELSE NoDirs]

\* heif.ExtractExif on the buffered stream
heifExtractExif(data) ==
    [ok |-> Len(data) > 8, data |-> IF Len(data) > 8 THEN SubSeqFrom(data, 9) ELSE <<>>]

\* processTIFFFile on the reader r; base bytes of the stream were consumed
\* before.  tiff.Decode reads r to its end through the tee.
processTIFFFile(r, content, base) ==
    LET tif == tiffDecode(r, content) IN
    [err |-> IF tif.isNil THEN decodeError(ErrorString("tiff: decode failed")) ELSE NilErr,
     er |-> r, tif |-> tif, consumed |-> base + Len(r)]

processJPEGFile(r, content) ==
    LET sec == newAppSec(jpegAPP1, r, 0)
        er == exifReader(sec.data)
        tif == tiffDecode(er.data, content)
    IN IF ~sec.ok
       THEN [err |-> decodeError(ErrorString("EOF")), er |-> <<>>, tif |-> NilTiff,
             consumed |-> sec.pos]
       ELSE IF ~er.ok
       THEN [err |-> decodeError(ErrorString("exif: failed to find exif intro marker")),
             er |-> <<>>, tif |-> NilTiff, consumed |-> sec.pos]
       ELSE IF tif.isNil
       THEN [err |-> decodeError(ErrorString("tiff: decode failed")), er |-> <<>>,
             tif |-> NilTiff, consumed |-> sec.pos]
       ELSE [err |-> NilErr, er |-> er.data, tif |-> tif, consumed |-> sec.pos]

\* the switch of DecodeWithOptions on the detected file type; r is the stream
\* with the header put back
processFile(fType, r, content) ==
    CASE fType = fileTypeHEIF ->
            LET xf == heifExtractExif(r) IN
            IF ~xf.ok
            THEN [err |-> ErrorString("exif: unable to extract exif from heif/heic file"),
                  er |-> <<>>, tif |-> NilTiff, consumed |-> Len(r)]
            ELSE processTIFFFile(xf.data, content, Len(r) - Len(xf.data))
      [] fType = fileTypeRawExif ->
            IF ~processRawExifFile(r)
            THEN [err |-> ErrorString("exif: unexpected raw exif header"),
                  er |-> <<>>, tif |-> NilTiff, consumed |-> Min(Len(r), 6)]
            ELSE processTIFFFile(SubSeqFrom(r, 7), content, 6)
      [] fType = fileTypeTIFF -> processTIFFFile(r, content, 0)
      [] fType = fileTypeJPEG -> processJPEGFile(r, content)

\* ------------------------------------------------------------ default parser
loadSubDir_PartialMerge(xv, ptr, fieldMap) ==
    IF ~Has(xv.Fields, ptr) THEN [err |-> NilErr, Fields |-> xv.Fields]
    ELSE LET tag == xv.Fields[ptr]
             partial == LoadTags(xv.Fields, <<xv.Raw.dirs[1][1]>>, fieldMap,
                                 xv.opts.KeepUnknownTags)
         IN
         IF ~Int64Ok(tag, 0) THEN [err |-> NilErr, Fields |-> xv.Fields]
         ELSE IF ~SeekOk(Int64(tag, 0))
         THEN [err |-> ErrorString("exif: seek to sub-IFD failed"), Fields |-> xv.Fields]
         ELSE IF ~DecodeDirOk(xv.Raw.dirs, Int64(tag, 0))
         THEN [err |-> ErrorString("exif: sub-IFD decode failed"), Fields |-> partial]
         ELSE [err |-> NilErr,
               Fields |-> LoadTags(xv.Fields, DecodeDir(xv.Raw.dirs, Int64(tag, 0)),
                                   fieldMap, xv.opts.KeepUnknownTags)]

\* x.loadSubDir(ptr, fieldMap): the error and the field mapping afterwards
loadSubDir(xv, ptr, fieldMap) ==
    IF ~Has(xv.Fields, ptr) THEN [err |-> NilErr, Fields |-> xv.Fields]
    ELSE LET tag == xv.Fields[ptr] IN
         IF ~Int64Ok(tag, 0) THEN [err |-> NilErr, Fields |-> xv.Fields]
         ELSE IF ~SeekOk(Int64(tag, 0))
         THEN [err |-> ErrorString("exif: seek to sub-IFD failed"), Fields |-> xv.Fields]
         ELSE IF ~DecodeDirOk(xv.Raw.dirs, Int64(tag, 0))
         THEN [err |-> ErrorString("exif: sub-IFD decode failed"), Fields |-> xv.Fields]
         ELSE [err |-> NilErr,
               Fields |-> LoadTags(xv.Fields, DecodeDir(xv.Raw.dirs, Int64(tag, 0)),
                                   fieldMap, xv.opts.KeepUnknownTags)]

Record_ExifKey(t, stage, err) ==
    IF IsNil(err) THEN t
    ELSE [k \in DOMAIN t \cup {loadExif} |-> IF k = loadExif THEN err.msg ELSE t[k]]

\* te[stage] = err.Error() when err is not nil
Record(t, stage, err) ==
    IF IsNil(err) THEN t
    ELSE [k \in DOMAIN t \cup {stage} |-> IF k = stage THEN err.msg ELSE t[k]]

\* ------------------------------------------------------------- vendor parsers
\* the directories of append(make([]byte, m.ValOffset), m.Val...): those of
\* m.Val, moved by m.ValOffset
PaddedDirs(m) ==
    [o \in {d + m.ValOffset : d \in DOMAIN m.Dirs} |-> m.Dirs[o - m.ValOffset]]

appleParse_AnyVersion(xv) ==
    IF ~Has(xv.Fields, "MakerNote") THEN [err |-> NilErr, Fields |-> xv.Fields]
    ELSE LET m == xv.Fields["MakerNote"] IN
         IF Len(m.Val) < 12 THEN [err |-> NilErr, Fields |-> xv.Fields]
         ELSE IF Slice(m.Val, 0, 9) # Slice(AppleSignature, 0, 9)
         THEN [err |-> NilErr, Fields |-> xv.Fields]
         ELSE IF ~DecodeDirOk(m.Dirs, 14)
         THEN [err |-> ErrorString("tiff: directory decode failed"), Fields |-> xv.Fields]
         ELSE [err |-> NilErr,
               Fields |-> LoadTags(xv.Fields, DecodeDir(m.Dirs, 14),
                                   makerNoteAppleFields, FALSE)]

appleParse(xv) ==
    IF ~Has(xv.Fields, "MakerNote") THEN [err |-> NilErr, Fields |-> xv.Fields]
    ELSE LET m == xv.Fields["MakerNote"] IN
         IF Len(m.Val) < 12 THEN [err |-> NilErr, Fields |-> xv.Fields]
         ELSE IF Slice(m.Val, 0, 12) # AppleSignature
         THEN [err |-> NilErr, Fields |-> xv.Fields]
         ELSE IF ~DecodeDirOk(m.Dirs, 14)
         THEN [err |-> ErrorString("tiff: directory decode failed"), Fields |-> xv.Fields]
         ELSE [err |-> NilErr,
               Fields |-> LoadTags(xv.Fields, DecodeDir(m.Dirs, 14),
                                   makerNoteAppleFields, FALSE)]

canonParse_MakeOptional(xv) ==
    IF ~Has(xv.Fields, "MakerNote") THEN [err |-> NilErr, Fields |-> xv.Fields]
    ELSE LET m == xv.Fields["MakerNote"] IN
         IF ~Has(xv.Fields, "Make") THEN [err |-> NilErr, Fields |-> xv.Fields]
         ELSE IF ~StringValOk(xv.Fields["Make"]) \/ StringVal(xv.Fields["Make"]) # StrCanon
         THEN [err |-> NilErr, Fields |-> xv.Fields]
         ELSE IF ~DecodeDirOk(PaddedDirs(m), m.ValOffset)
         THEN [err |-> ErrorString("tiff: directory decode failed"), Fields |-> xv.Fields]
         ELSE [err |-> NilErr,
               Fields |-> LoadTags(xv.Fields, DecodeDir(PaddedDirs(m), m.ValOffset),
                                   makerNoteCanonFields, FALSE)]

canonParse_AnyMake(xv) ==
    IF ~Has(xv.Fields, "MakerNote") THEN [err |-> NilErr, Fields |-> xv.Fields]
    ELSE LET m == xv.Fields["MakerNote"] IN
         IF ~Has(xv.Fields, "Make")
         THEN [err |-> TagNotPresentError("Make"), Fields |-> xv.Fields]
         ELSE IF ~DecodeDirOk(PaddedDirs(m), m.ValOffset)
         THEN [err |-> ErrorString("tiff: directory decode failed"), Fields |-> xv.Fields]
         ELSE [err |-> NilErr,
               Fields |-> LoadTags(xv.Fields, DecodeDir(PaddedDirs(m), m.ValOffset),
                                   makerNoteCanonFields, FALSE)]

canonParse_Silent(xv) ==
    IF ~Has(xv.Fields, "MakerNote") THEN [err |-> NilErr, Fields |-> xv.Fields]
    ELSE LET m == xv.Fields["MakerNote"] IN
         IF ~Has(xv.Fields, "Make")
         THEN [err |-> TagNotPresentError("Make"), Fields |-> xv.Fields]
         ELSE IF ~StringValOk(xv.Fields["Make"]) \/ StringVal(xv.Fields["Make"]) # StrCanon
         THEN [err |-> NilErr, Fields |-> xv.Fields]
         ELSE IF ~DecodeDirOk(PaddedDirs(m), m.ValOffset)
         THEN [err |-> NilErr, Fields |-> xv.Fields]
         ELSE [err |-> NilErr,
               Fields |-> LoadTags(xv.Fields, DecodeDir(PaddedDirs(m), m.ValOffset),
                                   makerNoteCanonFields, FALSE)]

canonParse(xv) ==
    IF ~Has(xv.Fields, "MakerNote") THEN [err |-> NilErr, Fields |-> xv.Fields]
    ELSE LET m == xv.Fields["MakerNote"] IN
         IF ~Has(xv.Fields, "Make")
         THEN [err |-> TagNotPresentError("Make"), Fields |-> xv.Fields]
         ELSE IF ~StringValOk(xv.Fields["Make"]) \/ StringVal(xv.Fields["Make"]) # StrCanon
         THEN [err |-> NilErr, Fields |-> xv.Fields]
         ELSE IF ~DecodeDirOk(PaddedDirs(m), m.ValOffset)
         THEN [err |-> ErrorString("tiff: directory decode failed"), Fields |-> xv.Fields]
         ELSE [err |-> NilErr,
               Fields |-> LoadTags(xv.Fields, DecodeDir(PaddedDirs(m), m.ValOffset),
                                   makerNoteCanonFields, FALSE)]

\* the Nikon V3 parser: signature "Nikon\0", a TIFF structure at byte 10
nikonV3Parse(xv) ==
    IF ~Has(xv.Fields, "MakerNote") THEN [err |-> NilErr, Fields |-> xv.Fields]
    ELSE LET m == xv.Fields["MakerNote"] IN
         IF Len(m.Val) < 6 \/ Slice(m.Val, 0, 6) # StrNikon \o <<0>>
         THEN [err |-> NilErr, Fields |-> xv.Fields]
         ELSE IF ~DecodeDirOk(m.Dirs, 10)
         THEN [err |-> ErrorString("tiff: decode failed"), Fields |-> xv.Fields]
         ELSE [err |-> NilErr,
               Fields |-> LoadTags(xv.Fields, DecodeDir(m.Dirs, 10),
                                   makerNoteNikon3Fields, FALSE)]

adobeDNGParse(xv) ==
    LET subIfds == <<SubIFD0Fields, SubIFD1Fields, SubIFD2Fields>>
        RECURSIVE loop(_, _)
        loop(f, k) ==
            IF k >= 3 THEN [err |-> NilErr, Fields |-> f]
            ELSE LET m == xv.Fields["SubIfdsPointer"] IN
                 IF ~Int64Ok(m, k) THEN [err |-> NilErr, Fields |-> f]
                 ELSE IF ~SeekOk(Int64(m, k))
                 THEN [err |-> ErrorString("exif: seek to sub-IFD failed"), Fields |-> f]
                 ELSE IF ~DecodeDirOk(xv.Raw.dirs, Int64(m, k))
                 THEN [err |-> ErrorString("exif: sub-IFD decode failed"), Fields |-> f]
                 ELSE loop(LoadTags(f, DecodeDir(xv.Raw.dirs, Int64(m, k)),
                                    subIfds[k + 1], FALSE), k + 1)
    IN IF ~Has(xv.Fields, "SubIfdsPointer") THEN [err |-> NilErr, Fields |-> xv.Fields]
       ELSE IF ~(xv.Fields["SubIfdsPointer"].Count > 0)
       THEN [err |-> NilErr, Fields |-> xv.Fields]
       ELSE loop(xv.Fields, 0)

\* the prefix test of sony.Parse: 12 bytes of header are skipped after one
\* of the signatures
sonyHeaderOffset(val) ==
    IF \/ Slice(val, 0, 10) = SigSonyDSC
       \/ Slice(val, 0, 10) = SigSonyCAM
       \/ Slice(val, 0, 13) = SigSonyMOBILE
       \/ Slice(val, 0, 11) = SigSonyPIC
       \/ Slice(val, 0, 10) = SigVHAB
    THEN 12 ELSE 0

\* the loop of sony.Parse over the descriptors: the emitted pseudo-tags
sonyBinaryTags(model, buf) ==
    LET RECURSIVE loop(_, _)
        loop(tags, k) ==
            IF k > Len(Sony0x9050BinaryTags) THEN tags
            ELSE IF makeBinaryTagOk(Sony0x9050BinaryTags[k], model, buf)
                 THEN loop(Append(tags, makeBinaryTag(Sony0x9050BinaryTags[k], model, buf, k - 1)),
                           k + 1)
                 ELSE loop(tags, k + 1)
    IN loop(<<>>, 1)

\* Sony0x9050Fields[uint16(i)] = bt.fieldName for every descriptor
sonyFieldTable(table) ==
    [k \in DOMAIN table \cup 0..(Len(Sony0x9050BinaryTags) - 1) |->
        IF k \in 0..(Len(Sony0x9050BinaryTags) - 1)
        THEN Sony0x9050BinaryTags[k + 1].fieldName ELSE table[k]]

\* the tag bound at Sony.0x9050 after descramble0x9050(m9050.Val)
descrambled(tag) == [tag EXCEPT !.Val = descramble0x9050(tag.Val)]

\* sony.Parse: the error, the field mapping, whether the package-level table
\* Sony0x9050Fields was written, and its contents afterwards
sonyParse(xv, table) ==
    LET skip == [err |-> NilErr, Fields |-> xv.Fields, wrote |-> FALSE, table |-> table] IN
    IF ~Has(xv.Fields, "Model") THEN skip
    ELSE IF ~Has(xv.Fields, "Make") THEN skip
    ELSE IF StringVal(xv.Fields["Make"]) \notin {StrSONY, StrHASSELBLAD} THEN skip
    ELSE IF ~Has(xv.Fields, "MakerNote") THEN skip
    ELSE LET model == StringVal(xv.Fields["Model"])
             m == xv.Fields["MakerNote"]
             offset == sonyHeaderOffset(m.Val)
         IN IF Len(m.Val) < 13 THEN skip
            ELSE IF ~DecodeDirOk(PaddedDirs(m), m.ValOffset + offset) THEN skip
            ELSE LET f1 == LoadTags(xv.Fields, DecodeDir(PaddedDirs(m), m.ValOffset + offset),
                                    makerNoteSonyFields, FALSE)
                 IN IF ~Has(f1, sony0x9050) THEN [skip EXCEPT !.Fields = f1]
                    ELSE LET f2 == [f1 EXCEPT ![sony0x9050] = descrambled(@)]
                             tags == sonyBinaryTags(model, f2[sony0x9050].Val)
                             t2 == sonyFieldTable(table)
                         IN [err |-> NilErr,
                             Fields |-> LoadTags(f2, tags, t2, TRUE),
                             wrote |-> TRUE, table |-> t2]

\* ------------------------------------------------------------------ accessors
\* the 32-bit integer of four little-endian bytes, signed
int32le(b) ==
    IF b[4] < 128 THEN uint32le(b)
    ELSE -((255 - b[1]) + 256 * (255 - b[2]) + 65536 * (255 - b[3])
            + 16777216 * (255 - b[4])) - 1

\* a tag of rationals <<num, den>>
RatTag(id, type, rats) ==
    Tag(id, type, Len(rats),
        le32s([k \in 1..(2 * Len(rats)) |-> rats[(k + 1) \div 2][2 - (k % 2)]]), <<>>)

\* a tag of small unsigned integers, one or two bytes each
IntTag(id, type, ints) ==
    Tag(id, type, Len(ints),
        IF type = "BYTE" THEN ints
        ELSE [k \in 1..(2 * Len(ints)) |-> IF k % 2 = 1 THEN ints[(k + 1) \div 2] % 256
                                           ELSE ints[k \div 2] \div 256],
        ints)

\* tag.Rat2(i): numerator and denominator of the i-th rational
Rat2Ok(tag, i) == tag.Type \in {"RATIONAL", "SRATIONAL"} /\ i < tag.Count

Rat2(tag, i) ==
    LET rd(off) == IF tag.Type = "SRATIONAL" THEN int32le(Slice(tag.Val, off, off + 4))
                   ELSE uint32le(Slice(tag.Val, off, off + 4))
    IN [num |-> rd(8 * i), den |-> rd(8 * i + 4)]

\* tag.IntVal(i)
IntOk(tag, i) == tag.Type \in {"BYTE", "SHORT", "LONG", "SLONG"} /\ i < Len(tag.intVals)

IntVal(tag, i) == tag.intVals[i + 1]

\* n / d of Go on integers, d # 0: the quotient truncated toward zero
Quot(n, d) ==
    LET an == IF n < 0 THEN -n ELSE n
        ad == IF d < 0 THEN -d ELSE d
    IN IF (n < 0) = (d < 0) THEN an \div ad ELSE -(an \div ad)

\* what a call of an accessor does: it returns (val, err), or it panics
Out(val, err) == [panic |-> FALSE, val |-> val, err |-> err]

Panicked == [panic |-> TRUE, val |-> <<0, 1>>, err |-> NilErr]

\* a float as a fraction <<n, d>>, d > 0
Float(n, d) == <<n, d>>

\* (*Exif).GPSAltitude: float32(aN / aD) is the quotient of two int64
GPSAltitude(fields) ==
    IF ~Has(fields, "GPSAltitude")
    THEN Out(Float(0, 1), TagNotPresentError("GPSAltitude"))
    ELSE IF ~Has(fields, "GPSAltitudeRef")
    THEN Out(Float(0, 1), TagNotPresentError("GPSAltitudeRef"))
    ELSE IF ~IntOk(fields["GPSAltitudeRef"], 0)
    THEN Out(Float(0, 1), ErrorString("cannot parse GPS Altitude"))
    ELSE IF ~Rat2Ok(fields["GPSAltitude"], 0)
    THEN Out(Float(0, 1), ErrorString("cannot parse GPS Altitude"))
    ELSE LET r == Rat2(fields["GPSAltitude"], 0)
             ref == IntVal(fields["GPSAltitudeRef"], 0)
         IN IF r.den = 0 THEN Panicked
            ELSE LET a == Quot(r.num, r.den) IN
                 Out(Float(IF ref = 1 THEN -a ELSE a, 1), NilErr)

\* strconv.Itoa
RECURSIVE Digits(_)
Digits(n) == IF n < 10 THEN <<48 + n>> ELSE Digits(n \div 10) \o <<48 + (n % 10)>>

Itoa(n) == IF n < 0 THEN <<45>> \o Digits(-n) ELSE Digits(n)

\* (*Exif).FocalLength(fn)
FocalLength(fields, name) ==
    IF ~Has(fields, name) THEN Out(Float(0, 1), ErrorString("cannot parse Focal Length"))
    ELSE LET tag == fields[name] IN
         IF tag.Type = "RATIONAL"
         THEN IF ~Rat2Ok(tag, 0) THEN Out(Float(0, 1), ErrorString("tiff: rational"))
              ELSE LET r == Rat2(tag, 0) IN
                   IF r.den = 0 THEN Out(Float(r.num, 1), NilErr)
                   ELSE Out(Float(r.num, r.den), NilErr)
         ELSE IF tag.Type = "SHORT"
         THEN LET a == IF IntOk(tag, 0) THEN IntVal(tag, 0) ELSE 0 IN
              IF ~IntOk(tag, 1) THEN Out(Float(a, 1), NilErr)
              ELSE LET b == IntVal(tag, 1)
                       l == Len(Itoa(b))
                   IN IF a = 0 THEN Out(Float(b, 1), NilErr)
                      ELSE IF a = 2 /\ l = 4 THEN Out(Float(b, 1000), NilErr)
                      ELSE IF a = 2 /\ l = 3 THEN Out(Float(b, 100), NilErr)
                      ELSE Out(Float(0, 1), ErrorString("cannot parse FocalLength"))
         ELSE Out(Float(0, 1), ErrorString("cannot parse FocalLength"))

\* ------------------------------------------------------------ time.Parse
IsDigit(s, k) == k >= 1 /\ k <= Len(s) /\ s[k] >= 48 /\ s[k] <= 57

RECURSIVE Atoi(_)
Atoi(s) == IF s = <<>> THEN 0 ELSE 10 * Atoi(SubSeq(s, 1, Len(s) - 1)) + (s[Len(s)] - 48)

\* the zero time.Time
ZeroTime == [year |-> 1, month |-> 1, day |-> 1, hour |-> 0, min |-> 0, sec |-> 0, ms |-> 0]

DaysIn(month, year) ==
    IF month = 2
    THEN IF year % 4 = 0 /\ (year % 100 # 0 \/ year % 400 = 0) THEN 29 ELSE 28
    ELSE IF month \in {4, 6, 9, 11} THEN 30 ELSE 31

\* the end (1-based, inclusive) of the run of digits that starts at k
RECURSIVE DigitsEnd(_, _)
DigitsEnd(s, k) == IF IsDigit(s, k + 1) THEN DigitsEnd(s, k + 1) ELSE k

\* the first three digits of a fraction as milliseconds
Millis(frac) ==
    Atoi(SubSeq(frac \o <<48, 48, 48>>, 1, 3))

\* time.Parse / time.ParseInLocation(layout, value, time.UTC) for the layouts
\* "2006:01:02" (withClock false) and "2006:01:02 15:04:05" with or without
\* a fraction of the second (withClock true): the year of four digits, month
\* and day of two, the hour of one or two digits, minute and second of two, a
\* fraction of the second where the value has one, and nothing after it
ParseTime(value, withClock) ==
    LET bad == [ok |-> FALSE, t |-> ZeroTime]
        dateOk == /\ Len(value) >= 10
                  /\ \A k \in {1, 2, 3, 4, 6, 7, 9, 10} : IsDigit(value, k)
                  /\ value[5] = 58 /\ value[8] = 58
        year == Atoi(SubSeq(value, 1, 4))
        month == Atoi(SubSeq(value, 6, 7))
        day == Atoi(SubSeq(value, 9, 10))
    IN IF ~dateOk THEN bad
       ELSE IF month < 1 \/ month > 12 \/ day < 1 \/ day > DaysIn(month, year) THEN bad
       ELSE IF ~withClock
       THEN IF Len(value) # 10 THEN bad
            ELSE [ok |-> TRUE, t |-> [ZeroTime EXCEPT !.year = year, !.month = month,
                                                       !.day = day]]
       ELSE IF Len(value) < 12 \/ value[11] # 32 \/ ~IsDigit(value, 12) THEN bad
       ELSE LET he == IF IsDigit(value, 13) THEN 13 ELSE 12
                hour == Atoi(SubSeq(value, 12, he))
                clockOk == /\ Len(value) >= he + 6
                           /\ value[he + 1] = 58 /\ IsDigit(value, he + 2)
                           /\ IsDigit(value, he + 3)
                           /\ value[he + 4] = 58 /\ IsDigit(value, he + 5)
                           /\ IsDigit(value, he + 6)
            IN IF ~clockOk THEN bad
               ELSE LET min == Atoi(SubSeq(value, he + 2, he + 3))
                        sec == Atoi(SubSeq(value, he + 5, he + 6))
                        hasFrac == /\ Len(value) >= he + 8
                                   /\ value[he + 7] \in {44, 46}
                                   /\ IsDigit(value, he + 8)
                        fe == IF hasFrac THEN DigitsEnd(value, he + 8) ELSE he + 6
                        ms == IF hasFrac THEN Millis(SubSeq(value, he + 8, fe)) ELSE 0
                    IN IF hour > 23 \/ min > 59 \/ sec > 59 \/ fe # Len(value) THEN bad
                       ELSE [ok |-> TRUE,
                             t |-> [year |-> year, month |-> month, day |-> day,
                                    hour |-> hour, min |-> min, sec |-> sec, ms |-> ms]]

\* calcTimeHelper(n, d, _), d # 0
calcTimeHelper(n, d) ==
    LET a == Quot(n, d) IN IF a > 10 THEN Itoa(a) ELSE <<48>> \o Itoa(a)

\* fmt.Sprintf("%.3f", n / d) for n >= 0: the quotient rounded to three
\* decimals; "+Inf" and "NaN" for d = 0
Format3f(n, d) ==
    IF d = 0 THEN IF n = 0 THEN <<78, 97, 78>> ELSE <<43, 73, 110, 102>>
    ELSE LET ms == (2 * 1000 * n + d) \div (2 * d)
             frac == Digits(ms % 1000)
         IN Digits(ms \div 1000) \o <<46>>
                \o SubSeq(<<48, 48>>, 1, 3 - Len(frac)) \o frac

\* (*Exif).GPSTimeStamp; tag.Rat2 is taken to return 0, 0 with its error
GPSTimeStamp(fields) ==
    IF ~Has(fields, "GPSDateStamp") THEN Out(ZeroTime, TagNotPresentError("GPSDateStamp"))
    ELSE IF ~Has(fields, "GPSTimeStamp")
    THEN Out(ZeroTime, TagNotPresentError("GPSTimeStamp"))
    ELSE LET dateStr == StringVal(fields["GPSDateStamp"])
             tS == fields["GPSTimeStamp"]
             rat(k) == IF Rat2Ok(tS, k) THEN Rat2(tS, k) ELSE [num |-> 0, den |-> 0]
             parsed(value, withClock) ==
                LET r == ParseTime(value, withClock) IN
                Out(r.t, IF r.ok THEN NilErr ELSE ErrorString("parsing time"))
         IN IF rat(0).den = 0 \/ rat(1).den = 0 THEN Panicked
            ELSE IF ~Rat2Ok(tS, 2) THEN parsed(dateStr, FALSE)
            ELSE LET hour == calcTimeHelper(rat(0).num, rat(0).den)
                     min == calcTimeHelper(rat(1).num, rat(1).den)
                     sec == Format3f(rat(2).num, rat(2).den)
                     lt10 == rat(2).den # 0 /\ rat(2).num < 10 * rat(2).den
                 IN parsed(dateStr \o <<32>> \o hour \o <<58>> \o min \o <<58>>
                            \o (IF lt10 THEN <<48>> ELSE <<>>) \o sec, TRUE)

\* (*Exif).DateTime() with the default fields
DateTime(fields) ==
    IF ~Has(fields, "DateTimeOriginal") /\ ~Has(fields, "DateTime")
    THEN Out(ZeroTime, ErrorString("DateTime not found"))
    ELSE LET tag == IF Has(fields, "DateTimeOriginal") THEN fields["DateTimeOriginal"]
                    ELSE fields["DateTime"]
         IN IF tag.Type # "ASCII"
            THEN Out(ZeroTime, ErrorString("DateTime[Original] not in string format"))
            ELSE LET subSec == IF /\ Has(fields, "SubSecTimeOriginal")
                                  /\ StringValOk(fields["SubSecTimeOriginal"])
                               THEN <<46>> \o StringVal(fields["SubSecTimeOriginal"])
                               ELSE <<>>
                     r == ParseTime(TrimNul(tag.Val) \o subSec, TRUE)
                 IN Out(r.t, IF r.ok THEN NilErr ELSE ErrorString("parsing time"))

\* --------------------------------------------------------------- coordinates
RECURSIVE GCD(_, _)
GCD(a, b) == IF b = 0 THEN a ELSE GCD(b, a % b)

\* the fraction n / d, d > 0, in lowest terms
Reduce(n, d) ==
    LET g == GCD(IF n < 0 THEN -n ELSE n, d) IN Float(n \div g, d \div g)

AddF(a, b) == Reduce(a[1] * b[2] + b[1] * a[2], a[2] * b[2])

DivF(a, k) == Reduce(a[1], a[2] * k)

RECURSIVE Pow10(_)
Pow10(n) == IF n = 0 THEN 1 ELSE 10 * Pow10(n - 1)

\* strings.FieldsFunc(s, isSplitRune): the runs between ',' and ';'
RECURSIVE FieldsFunc(_)
FieldsFunc(s) ==
    IF s = <<>> THEN <<>>
    ELSE IF s[1] \in {44, 59} THEN FieldsFunc(Tail(s))
    ELSE LET RECURSIVE runEnd(_)
             runEnd(k) == IF k < Len(s) /\ s[k + 1] \notin {44, 59} THEN runEnd(k + 1) ELSE k
             e == runEnd(1)
         IN <<SubSeq(s, 1, e)>> \o FieldsFunc(SubSeq(s, e + 1, Len(s)))

\* strconv.ParseFloat(s, 64) on strings of signs, digits, points and letters
\* other than those of exponents, infinities and NaN: a sign, digits, and a
\* point with digits on at least one side of it; neg is the sign bit, val the
\* magnitude
ParseFloat(s) ==
    LET bad == [ok |-> FALSE, neg |-> FALSE, val |-> Float(0, 1)]
        signed == s # <<>> /\ s[1] \in {43, 45}
        body == IF signed THEN Tail(s) ELSE s
        ie == IF IsDigit(body, 1) THEN DigitsEnd(body, 1) ELSE 0
        point == ie < Len(body) /\ body[ie + 1] = 46
        fe == IF point /\ IsDigit(body, ie + 2) THEN DigitsEnd(body, ie + 2) ELSE ie + 1
        end == IF point THEN fe ELSE ie
        nfrac == IF point THEN fe - (ie + 1) ELSE 0
    IN IF ie + nfrac = 0 \/ end # Len(body) THEN bad
       ELSE [ok |-> TRUE, neg |-> signed /\ s[1] = 45,
             val |-> Reduce(Atoi(SubSeq(body, 1, ie)) * Pow10(nfrac)
                                + Atoi(SubSeq(body, ie + 2, fe)),
                            Pow10(nfrac))]

parseTagDegreesString_AnyCount(s) ==
    LET parts == FieldsFunc(s)
        bad == [ok |-> FALSE, val |-> Float(0, 1)]
        sum(d, m, sec) ==
            LET mag == AddF(d.val, AddF(DivF(m.val, 60), DivF(sec.val, 3600))) IN
            IF d.ok /\ m.ok /\ sec.ok
            THEN [ok |-> TRUE, val |-> IF d.neg THEN Float(-mag[1], mag[2]) ELSE mag]
            ELSE bad
    IN IF Len(parts) >= 6
       THEN sum(ParseFloat(parts[1] \o <<46>> \o parts[2]),
                ParseFloat(parts[3] \o <<46>> \o parts[4]),
                ParseFloat(parts[5] \o <<46>> \o parts[6]))
       ELSE IF Len(parts) >= 3
       THEN sum(ParseFloat(parts[1]), ParseFloat(parts[2]), ParseFloat(parts[3]))
       ELSE bad

parseTagDegreesString(s) ==
    LET parts == FieldsFunc(s)
        bad == [ok |-> FALSE, val |-> Float(0, 1)]
        sum(d, m, sec) ==
            LET mag == AddF(d.val, AddF(DivF(m.val, 60), DivF(sec.val, 3600))) IN
            IF d.ok /\ m.ok /\ sec.ok
            THEN [ok |-> TRUE, val |-> IF d.neg THEN Float(-mag[1], mag[2]) ELSE mag]
            ELSE bad
    IN IF Len(parts) = 6
       THEN sum(ParseFloat(parts[1] \o <<46>> \o parts[2]),
                ParseFloat(parts[3] \o <<46>> \o parts[4]),
                ParseFloat(parts[5] \o <<46>> \o parts[6]))
       ELSE IF Len(parts) = 3
       THEN sum(ParseFloat(parts[1]), ParseFloat(parts[2]), ParseFloat(parts[3]))
       ELSE bad

\* tagDegrees; a rational of denominator 0 makes the float an infinity or a
\* NaN, written Float(0, 0)
tagDegrees(tag) ==
    IF tag.Type \in {"RATIONAL", "SRATIONAL"}
    THEN IF tag.Count = 0 THEN [ok |-> FALSE, val |-> Float(0, 1)]
         ELSE LET n == IF tag.Count >= 3 THEN 3 ELSE tag.Count
                  r(k) == IF k < n THEN Rat2(tag, k) ELSE [num |-> 0, den |-> 1]
              IN IF \E k \in 0..2 : r(k).den = 0 THEN [ok |-> TRUE, val |-> Float(0, 0)]
                 ELSE [ok |-> TRUE,
                       val |-> AddF(Reduce(r(0).num, r(0).den),
                                    AddF(Reduce(r(1).num, r(1).den * 60),
                                         Reduce(r(2).num, r(2).den * 3600)))]
    ELSE IF tag.Type = "ASCII" THEN parseTagDegreesString(StringVal(tag))
    ELSE [ok |-> FALSE, val |-> Float(0, 1)]

\* (*Exif).parseGPSCoordinate(coordTag, refTag, coordName)
parseGPSCoordinate(fields, coordTag, refTag) ==
    IF ~Has(fields, coordTag) THEN Out(Float(0, 1), TagNotPresentError(coordTag))
    ELSE IF ~Has(fields, refTag) THEN Out(Float(0, 1), TagNotPresentError(refTag))
    ELSE LET coord == tagDegrees(fields[coordTag]) IN
         IF ~coord.ok THEN Out(Float(0, 1), ErrorString("cannot parse coordinate"))
         ELSE IF ~StringValOk(fields[refTag])
         THEN Out(Float(0, 1), ErrorString("cannot parse reference"))
         ELSE IF StringVal(fields[refTag]) \in {<<83>>, <<87>>}
         THEN Out(Float(-coord.val[1], coord.val[2]), NilErr)
         ELSE Out(coord.val, NilErr)

\* (*Exif).LatLong
LatLong(fields) ==
    LET lat == parseGPSCoordinate(fields, "GPSLatitude", "GPSLatitudeRef")
        long == parseGPSCoordinate(fields, "GPSLongitude", "GPSLongitudeRef")
    IN IF ~IsNil(lat.err) THEN Out(<<Float(0, 1), Float(0, 1)>>, lat.err)
       ELSE IF ~IsNil(long.err) THEN Out(<<Float(0, 1), Float(0, 1)>>, long.err)
       ELSE Out(<<lat.val, long.val>>, NilErr)

\* ---------------------------------------------------------------- state machine
Procs == {1, 2}

\* mknote.All
All == <<"Apple", "Canon", "NikonV3", "AdobeDNG", "Sony">>

VARIABLES
    active,             \* the decode calls of this run (one, or two concurrent)
    boot,               \* package initialisation: "exif", "mknote", "ready"
    parsers,            \* exif.parsers, the process-wide registry
    Sony0x9050Fields,   \* mknote.Sony0x9050Fields, a package-level map
    writers,            \* per package-level variable: the decode calls that wrote it
    pc,                 \* per call: "idle", "parsers", "loadExif", "loadGPS",
                        \*           "loadInterop", "done", "off"
    entry,              \* per call: the entry point
    in,                 \* per call: the input and the options
    x,                  \* per call: the Exif result
    i,                  \* per call: index of the parser loop
    te,                 \* per call: the tiffErrors of the default parser
    called,             \* per call: the registry indices invoked, in order
    results,            \* per call: the errors the parsers returned, in order
    attempts,           \* per call: the sub-IFD traversals attempted, in order
    ret,                \* per call: the values returned
    consumed,           \* per call: bytes taken from the input stream
    fn, arg, result     \* a function applied on its own: name, input, output

vars ==
    <<active, boot, parsers, Sony0x9050Fields, writers, pc, entry, in, x, i, te,
      called, results, attempts, ret, consumed, fn, arg, result>>

fnVars == <<fn, arg, result>>

shared == <<active, boot, parsers, Sony0x9050Fields, writers, fnVars>>

NoInput == Input(<<>>, Content(FALSE, 0, BaseChoice), Opts(FALSE, 0))

NoRet == [x |-> NilExif, err |-> NilErr]

\* the state before package initialisation and before any call
InitFor(procs) ==
    /\ active = procs
    /\ boot = "exif"
    /\ parsers = <<>>
    /\ Sony0x9050Fields = [k \in {} |-> ""]
    /\ writers = [v \in {"parsers", "Sony0x9050Fields"} |-> {}]
    /\ pc = [p \in Procs |-> IF p \in procs THEN "idle" ELSE "off"]
    /\ entry = [p \in Procs |-> "none"]
    /\ in = [p \in Procs |-> NoInput]
    /\ x = [p \in Procs |-> NilExif]
    /\ i = [p \in Procs |-> 0]
    /\ te = [p \in Procs |-> NoTe]
    /\ called = [p \in Procs |-> <<>>]
    /\ results = [p \in Procs |-> <<>>]
    /\ attempts = [p \in Procs |-> <<>>]
    /\ ret = [p \in Procs |-> NoRet]
    /\ consumed = [p \in Procs |-> 0]

NoCall == fn = "none" /\ arg = <<>> /\ result = "none"

Init == InitFor({1}) /\ NoCall

InitConc == InitFor({1, 2}) /\ NoCall

InputsOf(procs) == IF procs = {1} THEN Inputs ELSE ConcInputs

\* RegisterParsers(ps...)
RegisterParsers(ps) == parsers' = parsers \o ps

\* func init() of package exif
InitExif ==
    /\ boot = "exif"
    /\ RegisterParsers(<<"parser">>)
    /\ boot' = "mknote"
    /\ UNCHANGED <<active, Sony0x9050Fields, writers, pc, entry, in, x, i, te, called,
                   results, attempts, ret, consumed, fnVars>>

\* func init() of package mknote
InitMknote ==
    /\ boot = "mknote"
    /\ RegisterParsers(All)
    /\ boot' = "ready"
    /\ UNCHANGED <<active, Sony0x9050Fields, writers, pc, entry, in, x, i, te, called,
                   results, attempts, ret, consumed, fnVars>>

\* the call returns (xv, err)
Finish(p, xv, err) ==
    /\ pc' = [pc EXCEPT ![p] = "done"]
    /\ ret' = [ret EXCEPT ![p] = [x |-> xv, err |-> err]]

\* the parser loop starts on the new Exif structure xv
RunParsers(p, xv) ==
    /\ x' = [x EXCEPT ![p] = xv]
    /\ IF Len(parsers) = 0
       THEN Finish(p, xv, NilErr) /\ UNCHANGED i
       ELSE /\ pc' = [pc EXCEPT ![p] = "parsers"]
            /\ i' = [i EXCEPT ![p] = 1]
            /\ UNCHANGED ret

\* the parser loop after parser i returned err: stop on an error, that of the
\* default parser as it is, any other wrapped; otherwise go on or return
AfterParse_Continue(p, xv, err) ==
    /\ results' = [results EXCEPT ![p] = Append(@, err)]
    /\ IF i[p] < Len(parsers)
       THEN /\ i' = [i EXCEPT ![p] = @ + 1]
            /\ pc' = [pc EXCEPT ![p] = "parsers"]
            /\ UNCHANGED ret
       ELSE Finish(p, xv, err) /\ UNCHANGED i

AfterParse_NilOnError(p, xv, err) ==
    /\ results' = [results EXCEPT ![p] = Append(@, err)]
    /\ IF ~IsNil(err)
       THEN /\ IF err.type = "tiffErrors" THEN Finish(p, xv, err)
               ELSE Finish(p, NilExif, ErrorString("exif: parser failed"))
            /\ UNCHANGED i
       ELSE IF i[p] < Len(parsers)
       THEN /\ i' = [i EXCEPT ![p] = @ + 1]
            /\ pc' = [pc EXCEPT ![p] = "parsers"]
            /\ UNCHANGED ret
       ELSE Finish(p, xv, NilErr) /\ UNCHANGED i

AfterParse(p, xv, err) ==
    /\ results' = [results EXCEPT ![p] = Append(@, err)]
    /\ IF ~IsNil(err)
       THEN /\ Finish(p, xv, IF err.type = "tiffErrors" THEN err
                             ELSE ErrorString("exif: parser failed"))
            /\ UNCHANGED i
       ELSE IF i[p] < Len(parsers)
       THEN /\ i' = [i EXCEPT ![p] = @ + 1]
            /\ pc' = [pc EXCEPT ![p] = "parsers"]
            /\ UNCHANGED ret
       ELSE Finish(p, xv, NilErr) /\ UNCHANGED i

DecodeWithOptionsOn(p, input) ==
    /\ entry' = [entry EXCEPT ![p] = "DecodeWithOptions"]
    /\ in' = [in EXCEPT ![p] = input]
    /\ LET opts == [input.opts EXCEPT !.MaxExifSize = MaxExifSizeOf(input.opts)]
           r == input.stream
       IN IF Len(r) < 8
          THEN /\ Finish(p, NilExif, ErrorString("exif: error reading 8 byte header"))
               /\ consumed' = [consumed EXCEPT ![p] = Len(r)]
               /\ UNCHANGED <<x, i>>
          ELSE LET res == processFile(detectFileType(Slice(r, 0, 8)), r, input.content) IN
               /\ consumed' = [consumed EXCEPT ![p] = res.consumed]
               /\ IF ~IsNil(res.err)
                  THEN Finish(p, NilExif, res.err) /\ UNCHANGED <<x, i>>
                  ELSE RunParsers(p, New(res.tif, RawOf(res.er), opts))
    /\ UNCHANGED <<shared, te, called, results, attempts>>

\* DecodeWithOptions(r, opts), called once package initialisation is over
DecodeWithOptions(p) ==
    /\ boot = "ready" /\ pc[p] = "idle"
    /\ \E input \in InputsOf(active) : DecodeWithOptionsOn(p, input)

\* the recover handler of DecodeWithParseHeaderAndOptions turns a panic into
\* the error "Exif Error: ..."
Recovered_NoError == NilErr

Recovered == ErrorString("Exif Error")

DecodeWithParseHeaderAndOptionsOn(p, input) ==
    /\ entry' = [entry EXCEPT ![p] = "DecodeWithParseHeaderAndOptions"]
    /\ in' = [in EXCEPT ![p] = input]
    /\ LET opts == [input.opts EXCEPT !.MaxExifSize = MaxExifSizeOf(input.opts)]
           data == SubSeq(input.stream, 1, Min(Len(input.stream), opts.MaxExifSize))
           foundAt == scanHeader(data, 0)
       IN /\ consumed' = [consumed EXCEPT ![p] = Len(data)]
          /\ IF Len(data) = 0
             THEN \* err is nil after the loop; data[-1:] panics
                  Finish(p, NilExif, Recovered) /\ UNCHANGED <<x, i>>
             ELSE IF foundAt = -1
             THEN /\ Finish(p, NilExif, ErrorString("Invalid EXIF header"))
                  /\ UNCHANGED <<x, i>>
             ELSE LET er == SubSeqFrom(data, foundAt + 1) IN
                  \* the error of tiff.Decode is overwritten by that of ReadAll
                  RunParsers(p, New(tiffDecode(er, input.content), RawOf(er), opts))
    /\ UNCHANGED <<shared, te, called, results, attempts>>

DecodeWithParseHeaderAndOptions(p) ==
    /\ boot = "ready" /\ pc[p] = "idle"
    /\ \E input \in InputsOf(active) : DecodeWithParseHeaderAndOptionsOn(p, input)

\* parser.Parse up to the sub-IFD traversals
ParseBegin(p) ==
    /\ pc[p] = "parsers" /\ parsers[i[p]] = "parser"
    /\ called' = [called EXCEPT ![p] = Append(@, i[p])]
    /\ IF x[p].Tiff.isNil
       THEN \* x.Tiff.Dirs panics; only DecodeWithParseHeaderAndOptions recovers
            /\ Finish(p, x[p], IF entry[p] = "DecodeWithParseHeaderAndOptions"
                               THEN Recovered ELSE [Recovered EXCEPT !.type = "panic"])
            /\ UNCHANGED <<x, i, te, results>>
       ELSE IF Len(x[p].Tiff.Dirs) = 0
       THEN AfterParse(p, x[p], ErrorString("invalid exif data")) /\ UNCHANGED <<x, te>>
       ELSE LET keepUnknown == x[p].opts.KeepUnknownTags
                f0 == LoadTags(x[p].Fields, x[p].Tiff.Dirs[1], ExifFields, keepUnknown)
                f1 == IF Len(x[p].Tiff.Dirs) >= 2
                      THEN LoadTags(f0, x[p].Tiff.Dirs[2], ThumbnailFields, keepUnknown)
                      ELSE f0
            IN /\ x' = [x EXCEPT ![p].Fields = f1]
               /\ te' = [te EXCEPT ![p] = NoTe]
               /\ pc' = [pc EXCEPT ![p] = "loadExif"]
               /\ UNCHANGED <<i, ret, results>>
    /\ UNCHANGED <<shared, entry, in, attempts, consumed>>

Traverse_StopAtFirstError(p, stage, ptr, fieldMap) ==
    LET res == loadSubDir(x[p], ptr, fieldMap) IN
    IF DOMAIN te[p] # {} THEN UNCHANGED <<x, te, attempts>>
    ELSE /\ x' = [x EXCEPT ![p].Fields = res.Fields]
         /\ te' = [te EXCEPT ![p] = Record(@, stage, res.err)]
         /\ attempts' = [attempts EXCEPT ![p] =
                             Append(@, [stage |-> stage, failed |-> ~IsNil(res.err),
                                        before |-> x[p].Fields, after |-> res.Fields])]

\* one traversal of parser.Parse: loadSubDir and the recording of its error
Traverse(p, stage, ptr, fieldMap) ==
    LET res == loadSubDir(x[p], ptr, fieldMap) IN
    /\ x' = [x EXCEPT ![p].Fields = res.Fields]
    /\ te' = [te EXCEPT ![p] = Record(@, stage, res.err)]
    /\ attempts' = [attempts EXCEPT ![p] =
                        Append(@, [stage |-> stage, failed |-> ~IsNil(res.err),
                                   before |-> x[p].Fields, after |-> res.Fields])]

LoadExifSubDir(p) ==
    /\ pc[p] = "loadExif"
    /\ Traverse(p, loadExif, "ExifIFDPointer", ExifFields)
    /\ pc' = [pc EXCEPT ![p] = "loadGPS"]
    /\ UNCHANGED <<shared, entry, in, i, called, results, ret, consumed>>

LoadGPSSubDir(p) ==
    /\ pc[p] = "loadGPS"
    /\ Traverse(p, loadGPS, "GPSInfoIFDPointer", GpsFields)
    /\ pc' = [pc EXCEPT ![p] = "loadInterop"]
    /\ UNCHANGED <<shared, entry, in, i, called, results, ret, consumed>>

\* the last traversal and the return of parser.Parse
LoadInteropSubDir(p) ==
    /\ pc[p] = "loadInterop"
    /\ Traverse(p, loadInteroperability, "InteroperabilityIFDPointer", InteropFields)
    /\ AfterParse(p, x'[p], IF DOMAIN te'[p] # {} THEN tiffErrors(te'[p]) ELSE NilErr)
    /\ UNCHANGED <<shared, entry, in, called, consumed>>

\* a maker-note parser that touches the Exif structure only
VendorParse(p, name, res) ==
    /\ pc[p] = "parsers" /\ parsers[i[p]] = name
    /\ called' = [called EXCEPT ![p] = Append(@, i[p])]
    /\ x' = [x EXCEPT ![p].Fields = res.Fields]
    /\ AfterParse(p, x'[p], res.err)
    /\ UNCHANGED <<entry, in, te, attempts, consumed>>

AppleParse(p) == VendorParse(p, "Apple", appleParse(x[p])) /\ UNCHANGED shared

CanonParse(p) == VendorParse(p, "Canon", canonParse(x[p])) /\ UNCHANGED shared

NikonV3Parse(p) == VendorParse(p, "NikonV3", nikonV3Parse(x[p])) /\ UNCHANGED shared

AdobeDNGParse(p) == VendorParse(p, "AdobeDNG", adobeDNGParse(x[p])) /\ UNCHANGED shared

SonyParse(p) ==
    LET res == sonyParse(x[p], Sony0x9050Fields) IN
    /\ VendorParse(p, "Sony", res)
    /\ Sony0x9050Fields' = res.table
    /\ writers' = IF res.wrote
                  THEN [writers EXCEPT !["Sony0x9050Fields"] = @ \cup {p}]
                  ELSE writers
    /\ UNCHANGED <<active, boot, parsers, fnVars>>

Next ==
    \/ InitExif
    \/ InitMknote
    \/ \E p \in active : DecodeWithOptions(p)
    \/ \E p \in active : DecodeWithParseHeaderAndOptions(p)
    \/ \E p \in active : ParseBegin(p)
    \/ \E p \in active : LoadExifSubDir(p)
    \/ \E p \in active : LoadGPSSubDir(p)
    \/ \E p \in active : LoadInteropSubDir(p)
    \/ \E p \in active : AppleParse(p)
    \/ \E p \in active : CanonParse(p)
    \/ \E p \in active : NikonV3Parse(p)
    \/ \E p \in active : AdobeDNGParse(p)
    \/ \E p \in active : SonyParse(p)

Spec == Init /\ [][Next]_vars

\* two decode calls interleaved, parser by parser
SpecConc == InitConc /\ [][Next]_vars

\* --------------------------------------------------- detectFileType on its own
\* the 8-byte headers: every first half over the bytes of the TIFF magic
\* numbers, "Exif" and near misses, with second halves around "ftyp"
HeaderBytes == {0, 42, 73, 77}

FirstHalves ==
    [1..4 -> HeaderBytes]
        \cup {<<69, 120, 105, 102>>, <<69, 120, 105, 70>>, <<101, 120, 105, 102>>,
              <<102, 116, 121, 112>>, <<255, 216, 255, 225>>}

SecondHalves ==
    {<<102, 116, 121, 112>>, <<102, 116, 121, 80>>, <<70, 116, 121, 112>>,
     <<0, 0, 0, 0>>, <<73, 73, 42, 0>>, <<77, 77, 0, 42>>, <<69, 120, 105, 102>>}

Headers == {a \o b : a \in FirstHalves, b \in SecondHalves}

InitDetect ==
    /\ InitFor({})
    /\ fn = "detectFileType" /\ arg \in Headers /\ result = "none"

\* fType := detectFileType(header)
DetectFileType ==
    /\ fn = "detectFileType" /\ result = "none"
    /\ result' = detectFileType(arg)
    /\ UNCHANGED <<active, boot, parsers, Sony0x9050Fields, writers, pc, entry, in, x, i,
                   te, called, results, attempts, ret, consumed, fn, arg>>

NextDetect == DetectFileType

SpecDetect == InitDetect /\ [][NextDetect]_vars

\* ------------------------------------------- the Sony functions on their own
\* scrambled values: every single byte, and pairs over a few bytes on both
\* sides of 249
PairBytes == {0, 1, 8, 248, 249, 255}

ScrambledVals == {<<b>> : b \in 0..255} \cup {<<a, b>> : a \in PairBytes, b \in PairBytes}

\* the value a function returned, once it has
NotReturned == [returned |-> FALSE]

Returned(v) == [returned |-> TRUE, val |-> v]

\* camera models: none, models of the descriptor lists, one of no list
StrILCE1 == <<73, 76, 67, 69, 45, 49>>
StrSLTA58 == <<83, 76, 84, 45, 65, 53, 56>>
StrZVE10M2 == <<90, 86, 45, 69, 49, 48, 77, 50>>

BinaryTagModels == {<<>>, StrILCE7M3, StrDSC, StrILCE1, StrSLTA58, StrZVE10M2}

\* a descrambled blob of len bytes, 1 at the (1-based) positions nz, 0 elsewhere
Blob(len, nz) == [j \in 1..len |-> IF j \in nz THEN 1 ELSE 0]

\* the blobs around the [from, to) range of a descriptor: one byte too
\* short, exact, longer, empty; zero, or non-zero at one place in the range,
\* before it or after it
BlobsAround(from, to) ==
    {Blob(len, nz \cap 1..len) :
        len \in {0, to - 1, to, to + 1},
        nz \in {{}, {from + 1}, {to}, {from}, {to + 1}}}

Width(dataType, length) ==
    CASE dataType = "SonyUint24" -> 3
      [] dataType = "SonyUint32" -> 4
      [] dataType = "SonyHexString" -> length

BinaryTagArgs ==
    UNION {{[bt |-> k, model |-> m, buf |-> b] :
                m \in BinaryTagModels,
                b \in BlobsAround(Sony0x9050BinaryTags[k].offset,
                                  Sony0x9050BinaryTags[k].offset
                                    + Width(Sony0x9050BinaryTags[k].dataType,
                                            Sony0x9050BinaryTags[k].length))} :
           k \in 1..Len(Sony0x9050BinaryTags)}

\* every model prefix of the descriptor lists
ListedModels ==
    UNION {{Sony0x9050BinaryTags[k].models[j] : j \in 1..Len(Sony0x9050BinaryTags[k].models)} :
           k \in 1..Len(Sony0x9050BinaryTags)}

\* the end of the furthest range a descriptor reads
BlobLen ==
    LET ends == {Sony0x9050BinaryTags[k].offset
                    + Width(Sony0x9050BinaryTags[k].dataType, Sony0x9050BinaryTags[k].length) :
                 k \in 1..Len(Sony0x9050BinaryTags)}
    IN CHOOSE e \in ends : \A f \in ends : f <= e

\* blobs for the whole descriptor loop: all zero, non-zero everywhere,
\* non-zero at 0x52..0x54 only, and the short blob of the decode inputs
LoopBlobs ==
    {Blob(BlobLen, {}), Blob(BlobLen, 1..BlobLen), Blob(BlobLen, {83, 84, 85}),
     descramble0x9050(SonyBlob)}

BinaryLoopArgs ==
    {[model |-> m, buf |-> b] : m \in ListedModels \cup BinaryTagModels, b \in LoopBlobs}

InitSony ==
    /\ InitFor({})
    /\ result = NotReturned
    /\ \/ fn = "descramble0x9050" /\ arg \in ScrambledVals
       \/ fn = "makeBinaryTag" /\ arg \in BinaryTagArgs
       \/ fn = "sonyBinaryTags" /\ arg \in BinaryLoopArgs

\* descramble0x9050(val)
Descramble0x9050 ==
    /\ fn = "descramble0x9050" /\ ~result.returned
    /\ result' = Returned(descramble0x9050(arg))
    /\ UNCHANGED <<active, boot, parsers, Sony0x9050Fields, writers, pc, entry, in, x, i,
                   te, called, results, attempts, ret, consumed, fn, arg>>

\* makeBinaryTag(&bt, model, buf, id): the tag, or nothing for nil
MakeBinaryTag ==
    /\ fn = "makeBinaryTag" /\ ~result.returned
    /\ result' = Returned(IF makeBinaryTagOk(Sony0x9050BinaryTags[arg.bt], arg.model, arg.buf)
                          THEN <<makeBinaryTag(Sony0x9050BinaryTags[arg.bt], arg.model,
                                               arg.buf, arg.bt - 1)>>
                          ELSE <<>>)
    /\ UNCHANGED <<active, boot, parsers, Sony0x9050Fields, writers, pc, entry, in, x, i,
                   te, called, results, attempts, ret, consumed, fn, arg>>

\* the loop of sony.Parse over Sony0x9050BinaryTags: the tags appended to
\* m9050Dir, in order
SonyBinaryTags ==
    /\ fn = "sonyBinaryTags" /\ ~result.returned
    /\ result' = Returned(sonyBinaryTags(arg.model, arg.buf))
    /\ UNCHANGED <<active, boot, parsers, Sony0x9050Fields, writers, pc, entry, in, x, i,
                   te, called, results, attempts, ret, consumed, fn, arg>>

NextSony ==
    \/ Descramble0x9050
    \/ MakeBinaryTag
    \/ SonyBinaryTags

SpecSony == InitSony /\ [][NextSony]_vars

\* ------------------------------------------------- the scans, one iteration a step
\* the byte sequences given to the scans: every sequence up to MaxScanLen over
\* 0xFF, the marker, and the length bytes 0, 2 and 3, the decode streams, and
\* APP1 sections after 0 to 2 fill bytes 0xFF, whole and cut short
RECURSIVE SeqsUpTo(_, _)
SeqsUpTo(S, n) ==
    IF n = 0 THEN {<<>>}
    ELSE LET shorter == SeqsUpTo(S, n - 1) IN
         shorter \cup {Append(s, b) : s \in {t \in shorter : Len(t) = n - 1}, b \in S}

App1Section(body) ==
    <<255, jpegAPP1, (Len(body) + 2) \div 256, (Len(body) + 2) % 256>> \o body

FillStreams ==
    {lead \o fill \o Slice(sec, 0, Len(sec) - cut) \o rest :
        lead \in {<<>>, <<255, 216>>, <<255, 0, 7>>},
        fill \in {<<>>, <<255>>, <<255, 255>>},
        sec \in {App1Section(<<7>>), App1Section(ExifMarker \o <<73, 73>>),
                 App1Section(<<69, 120, 105, 102, 0, 1, 9>>)},
        cut \in {0, 1},
        rest \in {<<>>, App1Section(<<8, 9>>)}}

ScanStreams == SeqsUpTo({255, jpegAPP1, 0, 2, 3}, MaxScanLen) \cup Streams \cup FillStreams

\* a loop in progress: the position reached and the iterations done
Scanning(pos, steps) == [returned |-> FALSE, pos |-> pos, steps |-> steps]

InitScan ==
    /\ InitFor({})
    /\ result = Scanning(0, 0)
    /\ arg \in ScanStreams
    /\ fn \in {"newAppSec", "scanHeader"}

\* newAppSec(jpegAPP1, r): one iteration of the loop that seeks the marker
AppSecIteration ==
    /\ fn = "newAppSec" /\ ~result.returned
    /\ LET s == appSecIteration(jpegAPP1, arg, result.pos) IN
       result' = IF s.done
                 THEN Returned([ok |-> s.ok, data |-> s.data, pos |-> s.pos,
                                steps |-> result.steps + 1])
                 ELSE Scanning(s.pos, result.steps + 1)
    /\ UNCHANGED <<active, boot, parsers, Sony0x9050Fields, writers, pc, entry, in, x, i,
                   te, called, results, attempts, ret, consumed, fn, arg>>

\* the header scan of DecodeWithParseHeaderAndOptions: one iteration, or the
\* end of the loop with foundAt
HeaderScanIteration ==
    /\ fn = "scanHeader" /\ ~result.returned
    /\ result' = IF result.pos >= Len(arg)
                 THEN Returned([foundAt |-> -1, steps |-> result.steps])
                 ELSE IF checkExifHeader(SubSeqFrom(arg, result.pos + 1))
                 THEN Returned([foundAt |-> result.pos, steps |-> result.steps + 1])
                 ELSE Scanning(result.pos + 1, result.steps + 1)
    /\ UNCHANGED <<active, boot, parsers, Sony0x9050Fields, writers, pc, entry, in, x, i,
                   te, called, results, attempts, ret, consumed, fn, arg>>

NextScan ==
    \/ AppSecIteration
    \/ HeaderScanIteration

SpecScan == InitScan /\ [][NextScan]_vars

\* a decode call, or one of its scans step by step
InitTerm == Init \/ InitScan

NextTerm ==
    \/ Next
    \/ NextScan

\* the steps of package initialisation, of a call that has started and of a
\* scan: the program keeps running until it returns (when a call is made is
\* up to the caller)
Running ==
    \/ InitExif
    \/ InitMknote
    \/ \E p \in active : ParseBegin(p)
    \/ \E p \in active : LoadExifSubDir(p)
    \/ \E p \in active : LoadGPSSubDir(p)
    \/ \E p \in active : LoadInteropSubDir(p)
    \/ \E p \in active : AppleParse(p)
    \/ \E p \in active : CanonParse(p)
    \/ \E p \in active : NikonV3Parse(p)
    \/ \E p \in active : AdobeDNGParse(p)
    \/ \E p \in active : SonyParse(p)
    \/ NextScan

SpecTerm == InitTerm /\ [][NextTerm]_vars /\ WF_vars(Running)

\* ------------------------------------------------------ the accessors on their own
\* the field mapping of the given <<name, tag>> pairs; <<>> leaves a field out
FieldsOf(pairs) ==
    [n \in {pairs[k][1] : k \in {j \in 1..Len(pairs) : pairs[j][2] # <<>>}} |->
        LET k == CHOOSE j \in 1..Len(pairs) : pairs[j][1] = n IN pairs[k][2][1]]

NotAString == <<IntTag(0, "LONG", <<7>>)>>

\* GPSAltitude (id 6): n/d with d dividing n or not, zero denominators, and
\* GPSAltitudeRef (id 5): above and below sea level
AltitudeTags ==
    {<<>>, NotAString}
        \cup {<<RatTag(6, "RATIONAL", <<r>>)>> :
                r \in {<<1500, 10>>, <<1501, 10>>, <<7, 2>>, <<0, 5>>, <<5, 0>>, <<0, 0>>}}

AltitudeRefTags == {<<>>, <<IntTag(5, "BYTE", <<0>>)>>, <<IntTag(5, "BYTE", <<1>>)>>,
                    <<AsciiTag(5, <<48>>)>>}

GPSAltitudeArgs ==
    {FieldsOf(<<<<"GPSAltitude", a>>, <<"GPSAltitudeRef", r>>>>) :
        a \in AltitudeTags, r \in AltitudeRefTags}

FocalLengthArgs ==
    {FieldsOf(<<<<"FocalLength", t>>>>) :
        t \in {<<>>, NotAString, <<AsciiTag(37386, <<53, 48>>)>>,
               <<IntTag(37386, "SHORT", <<5>>)>>,
               <<IntTag(37386, "SHORT", <<0, 50>>)>>,
               <<IntTag(37386, "SHORT", <<2, 1234>>)>>,
               <<IntTag(37386, "SHORT", <<2, 123>>)>>,
               <<IntTag(37386, "SHORT", <<2, 12>>)>>,
               <<RatTag(37386, "RATIONAL", <<>>)>>}
            \cup {<<RatTag(37386, "RATIONAL", <<r>>)>> :
                    r \in {<<50, 1>>, <<7, 2>>, <<35, 0>>, <<0, 0>>, <<0, 3>>}}}

StrDate == <<50, 48, 50, 52, 58, 48, 49, 58, 49, 53>>

StrBadDate == <<50, 48, 50, 52, 58, 48, 50, 58, 51, 48>>

StrDateTime == <<50, 48, 50, 52, 58, 48, 49, 58, 49, 53, 32, 49, 48, 58, 50, 48, 58, 51, 48>>

StrDateTime2 == <<50, 48, 50, 51, 58, 49, 50, 58, 51, 49, 32, 50, 51, 58, 53, 57, 58, 53, 57>>

\* GPSTimeStamp (id 7): hours and minutes around 10, seconds below and above
\* 10 and with a fraction, zero denominators, and a tag of two rationals
TimeStampTags ==
    {<<>>, NotAString, <<RatTag(7, "RATIONAL", <<<<10, 1>>, <<20, 1>>>>)>>}
        \cup {<<RatTag(7, "RATIONAL", <<<<h, 1>>, <<m, 1>>, s>>)>> :
                h \in {0, 9, 10, 11, 23}, m \in {0, 9, 10, 11, 59},
                s \in {<<0, 1>>, <<9, 1>>, <<30, 1>>, <<59, 1>>, <<1, 2>>, <<21, 2>>}}
        \cup {<<RatTag(7, "RATIONAL", <<<<12, hd>>, <<30, md>>, <<5, sd>>>>)>> :
                hd \in {0, 1}, md \in {0, 1}, sd \in {0, 1}}

GPSTimeStampArgs ==
    {FieldsOf(<<<<"GPSDateStamp", d>>, <<"GPSTimeStamp", t>>>>) :
        d \in {<<>>, <<AsciiTag(29, StrDate)>>, <<AsciiTag(29, StrBadDate)>>},
        t \in TimeStampTags}

DateTimeArgs ==
    {FieldsOf(<<<<"DateTimeOriginal", o>>, <<"DateTime", d>>, <<"SubSecTimeOriginal", s>>>>) :
        o \in {<<>>, NotAString, <<AsciiTag(36867, StrDateTime)>>, <<AsciiTag(36867, StrDate)>>},
        d \in {<<>>, <<AsciiTag(306, StrDateTime2)>>},
        s \in {<<>>, <<AsciiTag(37521, <<49, 50>>)>>, <<AsciiTag(37521, <<49, 50, 51>>)>>}}

StrDegrees == <<53, 50, 44, 53, 48, 44, 51, 52, 46, 48, 49, 49, 56>>

LatLongArgs ==
    {FieldsOf(<<<<"GPSLatitude", la>>, <<"GPSLatitudeRef", lar>>,
               <<"GPSLongitude", lo>>, <<"GPSLongitudeRef", lor>>>>) :
        la \in {<<>>, NotAString, <<AsciiTag(2, StrDegrees)>>,
                <<RatTag(2, "RATIONAL", <<<<47, 1>>, <<30, 1>>, <<0, 1>>>>)>>},
        lar \in {<<>>, <<AsciiTag(1, <<78>>)>>, <<AsciiTag(1, <<83>>)>>},
        lo \in {<<>>, <<RatTag(4, "RATIONAL", <<<<8, 1>>, <<15, 1>>, <<9, 2>>>>)>>,
                <<RatTag(4, "RATIONAL", <<<<8, 0>>>>)>>},
        lor \in {<<>>, <<AsciiTag(3, <<87>>)>>, NotAString}}

\* the parts joined by the separator sep
RECURSIVE JoinWith(_, _)
JoinWith(parts, sep) ==
    IF parts = <<>> THEN <<>>
    ELSE IF Len(parts) = 1 THEN parts[1]
    ELSE parts[1] \o <<sep>> \o JoinWith(Tail(parts), sep)

\* "8", "-8", "30", "1.5", "x"
DegreeTokens == {<<56>>, <<45, 56>>, <<51, 48>>, <<49, 46, 53>>, <<120>>}

\* degree strings of 0 to 7 parts, numeric or not, separated by ',' and ';',
\* with the decimal mark ',' or '.', with empty fields, and the strings
\* "52,00000,50,00000,34,01180", "52,00000;50,00000;34,01180",
\* "-008.0,30.0,03.6", "-17,00000,15.00000,04.80000" (4 parts) and
\* "-17,00000,15,00000,04.80000" (5 parts)
DegreeStrings ==
    {JoinWith(<<a, b, c>>, sep) : a \in DegreeTokens, b \in DegreeTokens,
                                  c \in DegreeTokens, sep \in {44, 59}}
        \cup {JoinWith(<<di, df, mi, mf, <<51>>, sf>>, 44) :
                di \in {<<53, 50>>, <<45, 56>>, <<45, 48>>}, df \in {<<48>>, <<53>>, <<120>>},
                mi \in {<<51, 48>>, <<120>>}, mf \in {<<48>>, <<53>>}, sf \in {<<54>>, <<55, 53>>}}
        \cup {JoinWith([k \in 1..n |-> t], sep) :
                n \in {0, 1, 2, 4, 5, 7}, t \in {<<56>>, <<48>>}, sep \in {44, 59}}
        \cup {<<53, 50, 44, 48, 48, 48, 48, 48, 44, 53, 48, 44, 48, 48, 48, 48, 48, 44, 51, 52, 44, 48, 49, 49, 56, 48>>,
              <<53, 50, 44, 48, 48, 48, 48, 48, 59, 53, 48, 44, 48, 48, 48, 48, 48, 59, 51, 52, 44, 48, 49, 49, 56, 48>>,
              <<45, 48, 48, 56, 46, 48, 44, 51, 48, 46, 48, 44, 48, 51, 46, 54>>,
              <<45, 49, 55, 44, 48, 48, 48, 48, 48, 44, 49, 53, 46, 48, 48, 48, 48, 48, 44, 48, 52, 46, 56, 48, 48, 48, 48>>,
              <<45, 49, 55, 44, 48, 48, 48, 48, 48, 44, 49, 53, 44, 48, 48, 48, 48, 48, 44, 48, 52, 46, 56, 48, 48, 48, 48>>,
              <<56, 44, 44, 51, 48, 44, 44, 48>>, <<44, 56, 59, 51, 48, 44, 48, 59>>, <<56, 44, 51, 48, 59, 48>>}

InitApi ==
    /\ InitFor({})
    /\ result = NotReturned
    /\ \/ fn = "GPSAltitude" /\ arg \in GPSAltitudeArgs
       \/ fn = "FocalLength" /\ arg \in FocalLengthArgs
       \/ fn = "GPSTimeStamp" /\ arg \in GPSTimeStampArgs
       \/ fn = "DateTime" /\ arg \in DateTimeArgs
       \/ fn = "LatLong" /\ arg \in LatLongArgs
       \/ fn = "parseTagDegreesString" /\ arg \in DegreeStrings

\* a call of the accessor fn that gives (when it does not panic) the outcome out
Access(name, out) ==
    /\ fn = name /\ ~result.returned
    /\ result' = Returned(out)
    /\ UNCHANGED <<active, boot, parsers, Sony0x9050Fields, writers, pc, entry, in, x, i,
                   te, called, results, attempts, ret, consumed, fn, arg>>

CallGPSAltitude == Access("GPSAltitude", GPSAltitude(arg))

CallFocalLength == Access("FocalLength", FocalLength(arg, "FocalLength"))

CallGPSTimeStamp == Access("GPSTimeStamp", GPSTimeStamp(arg))

CallDateTime == Access("DateTime", DateTime(arg))

CallLatLong == Access("LatLong", LatLong(arg))

CallParseTagDegreesString ==
    LET r == parseTagDegreesString(arg) IN
    Access("parseTagDegreesString",
           Out(r.val, IF r.ok THEN NilErr ELSE ErrorString("unknown coordinate format")))

NextApi ==
    \/ CallGPSAltitude
    \/ CallFocalLength
    \/ CallGPSTimeStamp
    \/ CallDateTime
    \/ CallLatLong
    \/ CallParseTagDegreesString

SpecApi == InitApi /\ [][NextApi]_vars

\* ------------------------------------------------------------------ properties
Last(s) == s[Len(s)]

\* C1: in every decode call the parsers are invoked in registration order,
\* each at most once; a parser is invoked only after all parsers before it
\* returned nil, and once a parser returned an error (the aggregated error of
\* the default parser included) the call is over and no other parser runs.
C1_ParsersInRegistrationOrder ==
    \A p \in Procs :
        /\ called[p] = [k \in 1..Len(called[p]) |-> k]
        /\ Len(called[p]) <= Len(parsers)
        /\ Len(results[p]) <= Len(called[p])
        /\ \A k \in 1..Len(results[p]) :
                k < Len(called[p]) => IsNil(results[p][k])
        /\ \A k \in 1..Len(results[p]) :
                ~IsNil(results[p][k]) =>
                    /\ pc[p] = "done"
                    /\ Len(called[p]) = k
                    /\ ~IsNil(ret[p].err)
        /\ (pc[p] = "done" /\ IsNil(ret[p].err)) =>
                /\ Len(called[p]) = Len(parsers)
                /\ Len(results[p]) = Len(parsers)

\* a parser in the middle of the chain (Canon) failed: the two before it
\* returned nil and the three after it were not called
C1_Witness ==
    /\ pc[1] = "done"
    /\ called[1] = <<1, 2, 3>>
    /\ Len(results[1]) = 3 /\ ~IsNil(results[1][3])
    /\ Len(parsers) = 6

\* C2: the default parser attempts the Exif, GPS and Interoperability
\* traversals once each, in that order, whatever the others did; a failed
\* traversal is recorded under its own key and a traversal whose pointer
\* leads to a directory merges the tags of that directory.
StagePointer == <<"ExifIFDPointer", "GPSInfoIFDPointer", "InteroperabilityIFDPointer">>

\* a field of the directory the pointer of the stage leads to in a well-formed file
StageField == <<"ExposureTime", "GPSAltitude", "InteroperabilityIndex">>

\* the pointer of stage k is bound and leads to the directory of the stage
PointsToDir(fields, k) ==
    /\ Has(fields, StagePointer[k])
    /\ fields[StagePointer[k]].Type = "LONG"
    /\ fields[StagePointer[k]].intVals = <<k>>

\* the default parser went through its traversals and returned
DefaultParserReturned(p) ==
    /\ Len(results[p]) >= 1
    /\ IsNil(results[p][1]) \/ results[p][1].type = "tiffErrors"

C2_TraversalsIndependent ==
    \A p \in Procs :
        /\ Len(attempts[p]) <= 3
        /\ \A k \in 1..Len(attempts[p]) : attempts[p][k].stage = k - 1
        /\ DefaultParserReturned(p) => Len(attempts[p]) = 3
        /\ pc[p] = "loadGPS" => Len(attempts[p]) = 1
        /\ pc[p] = "loadInterop" => Len(attempts[p]) = 2
        /\ \A k \in 1..Len(attempts[p]) :
                /\ attempts[p][k].failed =>
                        /\ (k - 1) \in DOMAIN te[p]
                        /\ ~PointsToDir(attempts[p][k].before, k)
                /\ (PointsToDir(attempts[p][k].before, k)
                        /\ RawDirs = x[p].Raw.dirs) =>
                        /\ ~attempts[p][k].failed
                        /\ StageField[k] \in DOMAIN attempts[p][k].after
                        /\ \A n \in DOMAIN attempts[p][k].before :
                                n \in DOMAIN attempts[p][k].after

\* the Exif and the Interoperability traversal failed, the GPS traversal in
\* between was attempted and merged its directory
C2_Witness ==
    /\ Len(attempts[1]) = 3
    /\ attempts[1][1].failed /\ attempts[1][3].failed
    /\ ~attempts[1][2].failed
    /\ "GPSAltitude" \in DOMAIN x[1].Fields
    /\ DOMAIN te[1] = {loadExif, loadInteroperability}

\* C3: the aggregated error of the default parser has the key of a traversal
\* exactly when that traversal failed, and the error is nil when none failed.
\* With only the GPS pointer corrupt in a well-formed file the error is a GPS
\* error, not an Exif or Interoperability error and not critical, and the
\* fields of the primary directory and of the Exif sub-IFD are bound.
PointerCorrupt(fields, k) ==
    /\ Has(fields, StagePointer[k])
    /\ fields[StagePointer[k]].Type \in {"LONG", "SLONG"}
    /\ fields[StagePointer[k]].intVals # <<>>
    /\ \/ fields[StagePointer[k]].intVals[1] < 0
       \/ fields[StagePointer[k]].intVals[1] \notin DOMAIN RawDirs

\* the tags of a directory that the table names are bound under these names
KnownTagsBound(fields, tags, fieldMap) ==
    \A k \in 1..Len(tags) :
        tags[k].Id \in DOMAIN fieldMap => Has(fields, fieldMap[tags[k].Id])

OnlyGPSCorrupt(p) ==
    /\ in[p].content.choice.exif = "good"
    /\ in[p].content.choice.gps \in {"bad", "neg"}
    /\ in[p].content.choice.iop \in {"good", "absent", "nonint"}

C3_AggregatedErrorKeys ==
    \A p \in Procs :
        DefaultParserReturned(p) =>
            LET e == results[p][1] IN
            /\ \A k \in 1..3 :
                    /\ ((k - 1) \in DOMAIN e.te) <=> attempts[p][k].failed
                    /\ attempts[p][k].failed <=> PointerCorrupt(attempts[p][k].before, k)
            /\ IsNil(e) <=> (\A k \in 1..3 : ~attempts[p][k].failed)
            /\ ~IsNil(e) => (pc[p] = "done" /\ ret[p].err = e)
            /\ OnlyGPSCorrupt(p) =>
                    /\ IsGPSError(ret[p].err)
                    /\ ~IsExifError(ret[p].err)
                    /\ ~IsInteroperabilityError(ret[p].err)
                    /\ ~IsCriticalError(ret[p].err)
                    /\ ~ret[p].x.isNil
                    /\ KnownTagsBound(ret[p].x.Fields, in[p].content.Dirs[1], ExifFields)
                    /\ KnownTagsBound(ret[p].x.Fields, ExifDir, ExifFields)
                    /\ ret[p].x.Fields["ExposureTime"] = ExifDir[1]

C3_Witness ==
    /\ pc[1] = "done"
    /\ OnlyGPSCorrupt(1)
    /\ IsGPSError(ret[1].err) /\ ~IsExifError(ret[1].err)
    /\ Has(ret[1].x.Fields, "ExposureTime") /\ Has(ret[1].x.Fields, "GPSInfoIFDPointer")

\* C4: when a parser fails after the top-level TIFF structure was decoded,
\* DecodeWithOptions returns a non-nil Exif result with every field bound
\* until then and the error: the aggregated error itself, not critical, for a
\* partial sub-IFD failure of the default parser, a critical error otherwise.
C4_PartialResultReturned ==
    \A p \in Procs :
        (/\ entry[p] = "DecodeWithOptions"
         /\ results[p] # <<>>
         /\ ~IsNil(Last(results[p]))) =>
            /\ pc[p] = "done"
            /\ ~ret[p].x.isNil
            /\ ret[p].x.Fields = x[p].Fields
            /\ attempts[p] # <<>> => \A n \in DOMAIN attempts[p][1].before :
                                        Has(ret[p].x.Fields, n)
            /\ \A k \in 1..Len(attempts[p]) :
                    \A n \in DOMAIN attempts[p][k].after : Has(ret[p].x.Fields, n)
            /\ ~IsNil(ret[p].err)
            /\ Last(results[p]).type = "tiffErrors" =>
                    (ret[p].err = Last(results[p]) /\ ~IsCriticalError(ret[p].err))
            /\ Last(results[p]).type # "tiffErrors" => IsCriticalError(ret[p].err)

\* DecodeWithOptions stopped at the error of the Canon parser and returned
\* the fields of the default parser with a critical error
C4_Witness ==
    /\ pc[1] = "done" /\ entry[1] = "DecodeWithOptions"
    /\ Len(results[1]) = 3 /\ ~IsNil(results[1][3])
    /\ Has(ret[1].x.Fields, "Make") /\ Has(ret[1].x.Fields, "MakerNote")
    /\ IsCriticalError(ret[1].err)

\* C5: two decode calls that run concurrently after package initialisation
\* never both write the same process-wide variable: every write of a decode
\* goes to its own Exif result, and the parser registry is only read.
C5_NoSharedWrites ==
    \A v \in DOMAIN writers : Cardinality(writers[v]) <= 1

\* C6: no parser changes the raw buffer of the Exif result nor the value
\* bytes of a tag after its creation: after a Sony parse the tag bound for
\* 0x9050 holds the bytes it held when it was decoded.
C6_TagBytesUnchanged ==
    \A p \in Procs :
        /\ (~x[p].isNil /\ pc[p] # "idle") => x[p].Raw = RawOf(x[p].Raw.bytes)
        /\ Has(x[p].Fields, sony0x9050) => x[p].Fields[sony0x9050].Val \in {SonyBlob, SonyLongBlob}

\* C7: a decode call takes at most MaxExifSize bytes from the input stream
\* (the 4 MiB default when the option is not positive), on both entry points.
C7_ReadsAtMostMaxExifSize ==
    \A p \in Procs : consumed[p] <= MaxExifSizeOf(in[p].opts)

\* C8: detectFileType returns TIFF iff bytes 0-3 are "II*\0" or "MM\0*",
\* otherwise raw EXIF iff bytes 0-3 are "Exif", otherwise HEIF iff bytes 4-7
\* are "ftyp", otherwise JPEG: exactly one outcome for every 8-byte header.
IsTiffMagic(h) == SubSeq(h, 1, 4) \in {<<73, 73, 42, 0>>, <<77, 77, 0, 42>>}
IsExifMagic(h) == SubSeq(h, 1, 4) = <<69, 120, 105, 102>>
IsFtyp(h) == SubSeq(h, 5, 8) = <<102, 116, 121, 112>>

C8_DetectFileTypeClassifies ==
    (fn = "detectFileType" /\ result # "none") =>
        /\ Len(arg) = 8
        /\ result \in {fileTypeTIFF, fileTypeRawExif, fileTypeHEIF, fileTypeJPEG}
        /\ (result = fileTypeTIFF) <=> IsTiffMagic(arg)
        /\ (result = fileTypeRawExif) <=> (~IsTiffMagic(arg) /\ IsExifMagic(arg))
        /\ (result = fileTypeHEIF) <=>
                (~IsTiffMagic(arg) /\ ~IsExifMagic(arg) /\ IsFtyp(arg))
        /\ (result = fileTypeJPEG) <=>
                (~IsTiffMagic(arg) /\ ~IsExifMagic(arg) /\ ~IsFtyp(arg))

\* a TIFF magic number followed by "ftyp" is classified as TIFF
C8_Witness ==
    /\ fn = "detectFileType"
    /\ arg = <<73, 73, 42, 0, 102, 116, 121, 112>>
    /\ result = fileTypeTIFF

\* C9: DecodeWithParseHeader returns a non-nil error whenever the top-level
\* TIFF decode of the data at the found header offset fails.
TopLevelDecodeFailed(p) ==
    LET data == SubSeq(in[p].stream, 1, Min(Len(in[p].stream), MaxExifSizeOf(in[p].opts)))
        foundAt == scanHeader(data, 0)
    IN /\ entry[p] = "DecodeWithParseHeaderAndOptions"
       /\ foundAt # -1
       /\ tiffDecode(SubSeqFrom(data, foundAt + 1), in[p].content).isNil

C9_TopLevelFailureReported ==
    \A p \in Procs :
        (pc[p] = "done" /\ TopLevelDecodeFailed(p)) => ~IsNil(ret[p].err)

\* the header was found, the payload did not decode, the default parser was
\* entered and the call returned an error
C9_Witness ==
    /\ pc[1] = "done" /\ TopLevelDecodeFailed(1)
    /\ called[1] = <<1>> /\ results[1] = <<>>
    /\ ~IsNil(ret[1].err)

\* C10: when the Apple parser matched its signature, or the Canon parser
\* found MakerNote and Make equal to "Canon", and the nested directory does
\* not decode, Parse returns the decode error and binds no vendor field.
Names(fieldMap) == {fieldMap[k] : k \in DOMAIN fieldMap}

AppleMatchedBadDir(fields) ==
    /\ Has(fields, "MakerNote")
    /\ Len(fields["MakerNote"].Val) >= 12
    /\ SubSeq(fields["MakerNote"].Val, 1, 12) = AppleSignature
    /\ ~DecodeDirOk(fields["MakerNote"].Dirs, 14)

CanonMatchedBadDir(fields) ==
    /\ Has(fields, "MakerNote")
    /\ Has(fields, "Make")
    /\ StringValOk(fields["Make"]) /\ StringVal(fields["Make"]) = StrCanon
    /\ ~DecodeDirOk(PaddedDirs(fields["MakerNote"]), fields["MakerNote"].ValOffset)

ReturnedDecodeError(p, k, fieldMap) ==
    /\ ~IsNil(results[p][k])
    /\ results[p][k].type = "errorString"
    /\ results[p][k].msg = "tiff: directory decode failed"
    /\ DOMAIN x[p].Fields \cap Names(fieldMap) = {}

SonyMatchedBadDir(fields) ==
    /\ Has(fields, "Model")
    /\ Has(fields, "Make")
    /\ StringVal(fields["Make"]) \in {StrSONY, StrHASSELBLAD}
    /\ Has(fields, "MakerNote")
    /\ Len(fields["MakerNote"].Val) >= 13
    /\ ~DecodeDirOk(PaddedDirs(fields["MakerNote"]),
                    fields["MakerNote"].ValOffset + sonyHeaderOffset(fields["MakerNote"].Val))

C11_SonyDecodeErrorReturned ==
    \A p \in Procs : \A k \in 1..Len(results[p]) :
        (parsers[called[p][k]] = "Sony" /\ SonyMatchedBadDir(x[p].Fields))
            => ~IsNil(results[p][k])

\* the step in which call p runs the parser registered under this name
Ran(p, name) ==
    /\ Len(called'[p]) = Len(called[p]) + 1
    /\ parsers[Last(called'[p])] = name

\* the parser run by this step returned nil and left the mapping as it was
SilentNoOp(p) ==
    /\ x'[p].Fields = x[p].Fields
    /\ Len(results'[p]) = Len(results[p]) + 1
    /\ IsNil(Last(results'[p]))

AppleMatches(fields) ==
    /\ Has(fields, "MakerNote")
    /\ Len(fields["MakerNote"].Val) >= 12
    /\ SubSeq(fields["MakerNote"].Val, 1, 12) = AppleSignature

\* C12: when MakerNote is absent, shorter than 12 bytes, or does not start
\* with "Apple iOS\0\0\x01" (another version byte included), Apple.Parse
\* returns nil and leaves the field mapping unchanged.
C12_AppleMismatchNoOp ==
    [][\A p \in Procs :
          (Ran(p, "Apple") /\ ~AppleMatches(x[p].Fields)) => SilentNoOp(p)]_vars

\* the Apple parser returned nil on a maker note with version byte 2, whose
\* directory at offset 14 would decode, and bound none of its tags
C12_Witness ==
    /\ Len(results[1]) >= 2 /\ parsers[called[1][2]] = "Apple"
    /\ IsNil(results[1][2])
    /\ Has(x[1].Fields, "MakerNote")
    /\ Len(x[1].Fields["MakerNote"].Val) >= 12
    /\ SubSeq(x[1].Fields["MakerNote"].Val, 1, 12) = SubSeq(AppleSignature, 1, 11) \o <<2>>
    /\ DecodeDirOk(x[1].Fields["MakerNote"].Dirs, 14)
    /\ DOMAIN x[1].Fields \cap Names(makerNoteAppleFields) = {}

\* Make is bound to a string that is none of these brands
MakeIsOther(fields, brands) ==
    /\ Has(fields, "Make")
    /\ StringValOk(fields["Make"])
    /\ StringVal(fields["Make"]) \notin brands

\* C13: on a Make other than "Canon", Canon.Parse returns nil and leaves the
\* field mapping unchanged; on a Make other than "SONY" and "HASSELBLAD",
\* Sony.Parse does the same, whatever the MakerNote bytes are.
C13_BrandMismatchNoOp ==
    [][\A p \in Procs :
          /\ (Ran(p, "Canon") /\ MakeIsOther(x[p].Fields, {StrCanon})) => SilentNoOp(p)
          /\ (Ran(p, "Sony") /\ MakeIsOther(x[p].Fields, {StrSONY, StrHASSELBLAD}))
                => (SilentNoOp(p) /\ Sony0x9050Fields' = Sony0x9050Fields)]_vars

\* both parsers ran on a Nikon file whose maker note holds a directory that
\* decodes at the offsets they use, and bound nothing
C13_Witness ==
    /\ Len(results[1]) = 6 /\ IsNil(results[1][3]) /\ IsNil(results[1][6])
    /\ MakeIsOther(x[1].Fields, {StrCanon, StrSONY, StrHASSELBLAD})
    /\ Has(x[1].Fields, "Model") /\ Has(x[1].Fields, "MakerNote")
    /\ DecodeDirOk(PaddedDirs(x[1].Fields["MakerNote"]), x[1].Fields["MakerNote"].ValOffset)
    /\ DOMAIN x[1].Fields \cap
            (Names(makerNoteCanonFields) \cup Names(makerNoteSonyFields)) = {}

\* C14: Canon.Parse returns nil when MakerNote is not bound, whether Make is
\* bound or not; when MakerNote is bound and Make is not, it returns the
\* lookup error of Make, the parser chain stops there and the decode call
\* returns a critical error that is not the aggregated one.
C14_CanonMakeLookupError ==
    \A p \in Procs : \A k \in 1..Len(results[p]) :
        parsers[called[p][k]] = "Canon" =>
            /\ ~Has(x[p].Fields, "MakerNote") => IsNil(results[p][k])
            /\ (Has(x[p].Fields, "MakerNote") /\ ~Has(x[p].Fields, "Make")) =>
                    /\ results[p][k] = TagNotPresentError("Make")
                    /\ IsTagNotPresentError(results[p][k])
                    /\ pc[p] = "done" /\ Len(called[p]) = k
                    /\ ~IsNil(ret[p].err)
                    /\ IsCriticalError(ret[p].err)
                    /\ ret[p].err.type # "tiffErrors"
                    /\ ret[p].x.Fields = x[p].Fields

\* a file with a MakerNote and no Make: the chain stopped at the Canon parser
C14_Witness ==
    /\ pc[1] = "done" /\ Len(results[1]) = 3
    /\ parsers[called[1][3]] = "Canon"
    /\ Has(x[1].Fields, "MakerNote") /\ ~Has(x[1].Fields, "Make")
    /\ IsTagNotPresentError(results[1][3])
    /\ IsCriticalError(ret[1].err)

\* the forward scramble of a byte: v^3 mod 249 below 249, v itself from 249 on
Scramble(v) == IF v < 249 THEN (v * v * v) % 249 ELSE v

\* C15: the table of descramble0x9050 holds v at index v^3 mod 249 for every
\* v in 0..248 and v at index v for 249..255: the scramble is a bijection on
\* 0..248, the table a permutation of 0..255 with no entry left unset, and
\* descrambling the scrambled image of a byte gives the byte back.
C15_DescrambleInvertsScramble ==
    (fn = "descramble0x9050" /\ result.returned) =>
        /\ Len(result.val) = Len(arg)
        /\ \A k \in 1..Len(arg) :
                /\ \E v \in 0..255 : Scramble(v) = arg[k]
                /\ \A v \in 0..255 : Scramble(v) = arg[k] => result.val[k] = v
                /\ arg[k] >= 249 => result.val[k] = arg[k]
                /\ arg[k] < 249 => result.val[k] < 249
        /\ \A v \in 0..255 : descrambleTable[Scramble(v)] = v
        /\ {descrambleTable[j] : j \in 0..255} = 0..255
        /\ \A v \in 0..248, w \in 0..248 : Scramble(v) = Scramble(w) => v = w

\* 8 = 2^3 is descrambled to 2 and 255 stays
C15_Witness ==
    /\ fn = "descramble0x9050"
    /\ arg = <<8, 255>>
    /\ result = Returned(<<2, 255>>)

\* C16: makeBinaryTag emits a pseudo-tag iff the Model starts with one of
\* the prefixes of the descriptor, the blob has at least offset + width
\* bytes, and the bytes read at the offset are not all zero or the
\* descriptor allows null values; for the three encodings alike.
ModelListed(bt, model) ==
    \E k \in 1..Len(bt.models) :
        /\ Len(model) >= Len(bt.models[k])
        /\ SubSeq(model, 1, Len(bt.models[k])) = bt.models[k]

BytesRead(bt, buf) ==
    SubSeq(buf, bt.offset + 1, bt.offset + Width(bt.dataType, bt.length))

C16_BinaryTagEmittedIff ==
    (fn = "makeBinaryTag" /\ result.returned) =>
        LET bt == Sony0x9050BinaryTags[arg.bt] IN
        (Len(result.val) = 1) <=>
            /\ ModelListed(bt, arg.model)
            /\ Len(arg.buf) >= bt.offset + Width(bt.dataType, bt.length)
            /\ \/ bt.ifNull
               \/ \E k \in 1..Width(bt.dataType, bt.length) : BytesRead(bt, arg.buf)[k] # 0

\* the descriptors (1-based positions in the list) that target field f and
\* list a prefix of the model
MatchingDescriptors(model, f) ==
    {k \in 1..Len(Sony0x9050BinaryTags) :
        /\ Sony0x9050BinaryTags[k].fieldName = f
        /\ checkModel(Sony0x9050BinaryTags[k], model)}

SonyFieldNames == {Sony0x9050BinaryTags[k].fieldName : k \in 1..Len(Sony0x9050BinaryTags)}

\* the positions of the descriptors whose tags the loop emitted, for field f
EmittedFor(tags, f) ==
    {tags[j].Id + 1 : j \in {n \in 1..Len(tags) :
                                Sony0x9050BinaryTags[tags[n].Id + 1].fieldName = f}}

\* C17 as stated: for every Model and every Sony field name at most one
\* descriptor that targets the field lists a prefix of the Model.
C17_AtMostOneDescriptorPerField ==
    (fn = "sonyBinaryTags") =>
        \A f \in SonyFieldNames : Cardinality(MatchingDescriptors(arg.model, f)) <= 1

\* C17 amended: up to three descriptors that target one field list a prefix
\* of the same Model; the loop emits, in list order, exactly the matching
\* descriptors whose value passes the null test, and the field ends up bound
\* once, to the tag of the last descriptor emitted for it.
C17_SeveralDescriptorsLastBound ==
    (fn = "sonyBinaryTags" /\ result.returned) =>
        LET bound == LoadTags(EmptyFields, result.val, sonyFieldTable(Sony0x9050Fields), TRUE)
        IN \A f \in SonyFieldNames :
            /\ Cardinality(MatchingDescriptors(arg.model, f)) <= 3
            /\ EmittedFor(result.val, f) =
                    {k \in MatchingDescriptors(arg.model, f) :
                        makeBinaryTagOk(Sony0x9050BinaryTags[k], arg.model, arg.buf)}
            /\ \A j \in 1..Len(result.val) : \A n \in 1..Len(result.val) :
                    j < n => result.val[j].Id < result.val[n].Id
            /\ Has(bound, f) <=> EmittedFor(result.val, f) # {}
            /\ Has(bound, f) =>
                    \A k \in EmittedFor(result.val, f) : k <= bound[f].Id + 1

\* ILCE-7M3 is listed by three descriptors of Sony.ShutterCount2 and, on a
\* blob that is non-zero everywhere, the three are emitted
C17_Witness ==
    /\ fn = "sonyBinaryTags" /\ result.returned
    /\ arg.model = StrILCE7M3
    /\ MatchingDescriptors(arg.model, "Sony.ShutterCount2") = {3, 4, 9}
    /\ EmittedFor(result.val, "Sony.ShutterCount2") = {3, 4, 9}

\* the directories the default parser of a decode of input loads, in order,
\* each with its id-to-name table: primary, thumbnail, and the sub-IFD of
\* every pointer that leads to a directory
LoadedDirs(input) ==
    LET c == input.content.choice
        d == input.content.Dirs
        sub(kind, k, table) ==
            IF kind = "good" THEN <<[tags |-> RawDirs[k], table |-> table]>> ELSE <<>>
    IN <<[tags |-> d[1], table |-> ExifFields]>>
        \o (IF Len(d) >= 2 THEN <<[tags |-> d[2], table |-> ThumbnailFields]>> ELSE <<>>)
        \o sub(c.exif, 1, ExifFields) \o sub(c.gps, 2, GpsFields) \o sub(c.iop, 3, InteropFields)

\* only the default parser has run, and it went through its traversals
OnlyDefaultParserReturned(p) == DefaultParserReturned(p) /\ Len(results[p]) = 1

\* the placeholder names of the unknown ids of the decode inputs
Placeholders ==
    {"UnknownTag_eeee", "UnknownTag_eeef", "UnknownTag_eef0", "UnknownTag_eef1",
     "UnknownTag_103"}

\* C18: a tag whose id is in the table of its directory is bound under the
\* name of the table; a tag whose id is not in the table is left out when
\* KeepUnknownTags is false and bound under UnknownPrefix followed by the id
\* in hexadecimal when it is true; this holds for the primary directory, the
\* thumbnail directory and the three sub-IFDs, and nothing else is bound.
C18_LoadTagsBindsByTable ==
    \A p \in Procs :
        OnlyDefaultParserReturned(p) =>
            LET dirs == LoadedDirs(in[p])
                keep == x[p].opts.KeepUnknownTags
                f == x[p].Fields
                name(n, j) ==
                    IF dirs[n].tags[j].Id \in DOMAIN dirs[n].table
                    THEN dirs[n].table[dirs[n].tags[j].Id]
                    ELSE UnknownPrefix \o Hex(dirs[n].tags[j].Id)
                known(n, j) == dirs[n].tags[j].Id \in DOMAIN dirs[n].table
                slots == UNION {{<<n, j>> : j \in 1..Len(dirs[n].tags)} : n \in 1..Len(dirs)}
            IN /\ keep = in[p].opts.KeepUnknownTags
               /\ \A s \in slots :
                    /\ known(s[1], s[2]) => Has(f, name(s[1], s[2]))
                    /\ (~known(s[1], s[2]) /\ keep) =>
                            /\ Has(f, name(s[1], s[2]))
                            /\ name(s[1], s[2]) \in Placeholders
                            /\ f[name(s[1], s[2])].Id = dirs[s[1]].tags[s[2]].Id
                    /\ (~known(s[1], s[2]) /\ ~keep) => ~Has(f, name(s[1], s[2]))
               /\ \A nm \in DOMAIN f :
                    \E s \in slots : /\ name(s[1], s[2]) = nm
                                     /\ known(s[1], s[2]) \/ keep
                                     /\ f[nm] \in {dirs[t[1]].tags[t[2]] : t \in slots}
               /\ ~keep => DOMAIN f \cap Placeholders = {}

\* all five directories were loaded with KeepUnknownTags set: each unknown id
\* is bound under its placeholder
C18_Witness ==
    \E p \in Procs :
        /\ OnlyDefaultParserReturned(p)
        /\ x[p].opts.KeepUnknownTags
        /\ Len(LoadedDirs(in[p])) = 5
        /\ Placeholders \subseteq DOMAIN x[p].Fields
        /\ x[p].Fields["UnknownTag_103"].Id = 259
        /\ x[p].Fields["UnknownTag_eef1"].Id = 61169
        /\ Has(x[p].Fields, "InteroperabilityIndex")

\* the same file decoded without KeepUnknownTags: no placeholder is bound
C18_WitnessSkipped ==
    \E p \in Procs :
        /\ OnlyDefaultParserReturned(p)
        /\ ~x[p].opts.KeepUnknownTags
        /\ Len(LoadedDirs(in[p])) = 5
        /\ DOMAIN x[p].Fields \cap Placeholders = {}
        /\ Has(x[p].Fields, "InteroperabilityIndex")

\* the Sony parser of call p has returned
SonyParserReturned(p) ==
    \E k \in 1..Len(results[p]) : parsers[called[p][k]] = "Sony"

\* C19: a name is bound to one tag, the one written last: after the default
\* parser, the last tag, in the order the directories are loaded and in
\* directory order inside each, that maps to the name; after the Sony parser,
\* for each Sony field, the tag of the last descriptor, in list order, that
\* targets the field and passed the filters.
C19_LastWriteWins ==
    \A p \in Procs :
        LET f == x[p].Fields IN
        /\ OnlyDefaultParserReturned(p) =>
            LET dirs == LoadedDirs(in[p])
                keep == x[p].opts.KeepUnknownTags
                slots == UNION {{<<n, j>> : j \in 1..Len(dirs[n].tags)} : n \in 1..Len(dirs)}
                name(s) ==
                    IF dirs[s[1]].tags[s[2]].Id \in DOMAIN dirs[s[1]].table
                    THEN dirs[s[1]].table[dirs[s[1]].tags[s[2]].Id]
                    ELSE IF keep THEN UnknownPrefix \o Hex(dirs[s[1]].tags[s[2]].Id) ELSE ""
                later(s, t) == s[1] < t[1] \/ (s[1] = t[1] /\ s[2] < t[2])
            IN \A s \in slots :
                    (name(s) # "" /\ \A t \in slots : later(s, t) => name(t) # name(s))
                        => /\ Has(f, name(s))
                           /\ f[name(s)] = dirs[s[1]].tags[s[2]]
        /\ (SonyParserReturned(p) /\ Has(f, sony0x9050)) =>
            LET model == StringVal(f["Model"])
                fired == {k \in 1..Len(Sony0x9050BinaryTags) :
                            makeBinaryTagOk(Sony0x9050BinaryTags[k], model, f[sony0x9050].Val)}
            IN \A k \in fired :
                    (\A n \in fired : n > k =>
                        Sony0x9050BinaryTags[n].fieldName # Sony0x9050BinaryTags[k].fieldName)
                        => /\ Has(f, Sony0x9050BinaryTags[k].fieldName)
                           /\ f[Sony0x9050BinaryTags[k].fieldName]
                                = makeBinaryTag(Sony0x9050BinaryTags[k], model,
                                                f[sony0x9050].Val, k - 1)

\* the interoperability directory holds two tags of id 1 and the second is
\* bound; Orientation is bound to the tag of the Exif sub-IFD, loaded after
\* the primary directory
C19_Witness ==
    \E p \in Procs :
        /\ OnlyDefaultParserReturned(p)
        /\ Len(LoadedDirs(in[p])) = 5
        /\ x[p].Fields["InteroperabilityIndex"] = InteropDir[3]
        /\ x[p].Fields["InteroperabilityIndex"] # InteropDir[1]
        /\ x[p].Fields["Orientation"] = ExifDir[2]

\* three descriptors of Sony.ShutterCount2 fire for an ILCE-7M3 and the field
\* is bound to the value at 0x4c, read by the last of them
C19_WitnessSony ==
    \E p \in Procs :
        /\ SonyParserReturned(p) /\ Has(x[p].Fields, sony0x9050)
        /\ StringVal(x[p].Fields["Model"]) = StrILCE7M3
        /\ \A k \in {3, 4, 9} :
                makeBinaryTagOk(Sony0x9050BinaryTags[k], StrILCE7M3, x[p].Fields[sony0x9050].Val)
        /\ Has(x[p].Fields, "Sony.ShutterCount2")
        /\ x[p].Fields["Sony.ShutterCount2"].Id = 8
        /\ x[p].Fields["Sony.ShutterCount2"].Val = <<1, 0, 0, 0>>

\* the Apple parser of call p has returned nil
AppleParserSucceeded(p) ==
    \E k \in 1..Len(results[p]) : parsers[called[p][k]] = "Apple" /\ IsNil(results[p][k])

\* C20: after a successful Apple parse every tag of the maker-note directory
\* whose id is in the Apple table is bound under a name of its own: the
\* number of Apple.* fields equals the number of distinct known ids of the
\* directory, and the field of a known tag holds a tag of that id.
C20_AppleDistinctNames ==
    \A p \in Procs :
        (/\ AppleParserSucceeded(p)
         /\ AppleMatches(x[p].Fields)
         /\ DecodeDirOk(x[p].Fields["MakerNote"].Dirs, 14)) =>
            LET f == x[p].Fields
                dir == DecodeDir(f["MakerNote"].Dirs, 14)
                known == {j \in 1..Len(dir) : dir[j].Id \in DOMAIN makerNoteAppleFields}
            IN /\ Cardinality(DOMAIN f \cap Names(makerNoteAppleFields))
                    = Cardinality({dir[j].Id : j \in known})
               /\ \A j \in known :
                    /\ Has(f, makerNoteAppleFields[dir[j].Id])
                    /\ f[makerNoteAppleFields[dir[j].Id]].Id = dir[j].Id

\* the bytes DecodeWithParseHeaderAndOptions reads from the stream of input
HeaderScanData(input) ==
    SubSeq(input.stream, 1, Min(Len(input.stream), MaxExifSizeOf(input.opts)))

\* the offsets (0-based) of data at which 8 bytes remain and a byte-order
\* mark is followed by 42 in that byte order
HeaderOffsets(data) ==
    {k \in 0..(Len(data) - 8) :
        \/ data[k + 1] = 73 /\ data[k + 2] = 73 /\ data[k + 3] = 42 /\ data[k + 4] = 0
        \/ data[k + 1] = 77 /\ data[k + 2] = 77 /\ data[k + 3] = 0 /\ data[k + 4] = 42}

\* C21: DecodeWithParseHeaderAndOptions decodes from the smallest offset,
\* within the first MaxExifSize bytes, at which 8 bytes remain and a TIFF
\* header stands; when there is none it returns nil with a non-nil error.
C21_DecodesFromFirstHeader ==
    \A p \in Procs :
        (entry[p] = "DecodeWithParseHeaderAndOptions" /\ pc[p] # "idle") =>
            LET data == HeaderScanData(in[p])
                offs == HeaderOffsets(data)
            IN IF offs = {}
               THEN pc[p] = "done" /\ ret[p].x.isNil /\ ~IsNil(ret[p].err)
               ELSE /\ ~x[p].isNil
                    /\ \E k \in offs :
                        /\ \A n \in offs : k <= n
                        /\ x[p].Raw.bytes = SubSeqFrom(data, k + 1)

\* a stream with headers at 2 and at 12 was decoded from offset 2
C21_Witness ==
    \E p \in Procs :
        /\ entry[p] = "DecodeWithParseHeaderAndOptions" /\ pc[p] = "done"
        /\ HeaderOffsets(HeaderScanData(in[p])) = {2, 12}
        /\ ~ret[p].x.isNil
        /\ ret[p].x.Raw.bytes = TiffLE \o TiffBE

\* a JPEG stream whose header lies past the cutoff: nil and an error
C21_WitnessNone ==
    \E p \in Procs :
        /\ entry[p] = "DecodeWithParseHeaderAndOptions" /\ pc[p] = "done"
        /\ Len(in[p].stream) > Len(HeaderScanData(in[p]))
        /\ HeaderOffsets(in[p].stream) # {}
        /\ ret[p].x.isNil /\ ~IsNil(ret[p].err)

\* a call, or a scan, is under way
Started == (\E p \in active : pc[p] # "idle") \/ fn # "none"

\* the call, or the scan, has returned
Terminated ==
    /\ \A p \in active : pc[p] = "done"
    /\ fn # "none" => result.returned

\* an iteration of a scan that does not end it moves the position forward
ScanAdvances ==
    (fn # "none" /\ ~result.returned /\ result' # result) =>
        /\ result'.returned \/ result'.pos > result.pos
        /\ result'.returned =>
                result'.val.steps <= Len(arg) + 1

\* C22: every decode call terminates: each iteration of the APP1 scan and of
\* the header scan moves forward in the input and the scans end within
\* Len(input) + 1 iterations with the result of the whole scan, the default
\* parser decodes at most three sub-directories, and every call returns.
C22_DecodeTerminates ==
    /\ [][ScanAdvances]_vars
    /\ [](\A p \in Procs : Len(attempts[p]) <= 3)
    /\ []((fn = "newAppSec" /\ result.returned) =>
            [ok |-> result.val.ok, data |-> result.val.data, pos |-> result.val.pos]
                = newAppSec(jpegAPP1, arg, 0))
    /\ []((fn = "scanHeader" /\ result.returned) =>
            result.val.foundAt = scanHeader(arg, 0))
    /\ Started ~> Terminated

\* the APP1 scan ended after more than one iteration
C22_Witness ==
    /\ fn = "newAppSec" /\ result.returned
    /\ result.val.steps >= 2
    /\ result.val.ok

\* a decode whose Exif sub-IFD holds a pointer to itself returned after three
\* traversals
C22_WitnessCyclic ==
    \E p \in active :
        /\ pc[p] = "done"
        /\ Len(attempts[p]) = 3
        /\ Has(x[p].Fields, "ExifIFDPointer")
        /\ x[p].Fields["ExifIFDPointer"] = ExifDir[4]

\* the first rational of the tag bound to name has denominator 0
ZeroDenominator(fields, name) ==
    /\ Has(fields, name)
    /\ Rat2Ok(fields[name], 0)
    /\ Rat2(fields[name], 0).den = 0

\* C23: GPSAltitude, GPSTimeStamp and FocalLength do not panic, whatever the
\* rationals of their tags (denominator 0 included); FocalLength on a
\* Rational tag of denominator 0 returns the numerator and no error.
C23_NoPanicOnZeroDenominator ==
    (fn \in {"GPSAltitude", "GPSTimeStamp", "FocalLength"} /\ result.returned) =>
        /\ ~result.val.panic
        /\ (fn = "FocalLength" /\ ZeroDenominator(arg, "FocalLength")) =>
                /\ IsNil(result.val.err)
                /\ result.val.val = Float(Rat2(arg["FocalLength"], 0).num, 1)

\* a tag the accessor fn needs is not bound in fields
NeededTagAbsent(name, fields) ==
    CASE name = "DateTime" -> ~Has(fields, "DateTimeOriginal") /\ ~Has(fields, "DateTime")
      [] name = "FocalLength" -> ~Has(fields, "FocalLength")
      [] name = "GPSAltitude" -> ~Has(fields, "GPSAltitude") \/ ~Has(fields, "GPSAltitudeRef")
      [] name = "LatLong" ->
            \E n \in {"GPSLatitude", "GPSLatitudeRef", "GPSLongitude", "GPSLongitudeRef"} :
                ~Has(fields, n)
      [] OTHER -> FALSE

\* every tag of the accessor that is bound has a value the accessor can read
BoundTagsParse(name, fields) ==
    CASE name = "GPSAltitude" ->
            /\ Has(fields, "GPSAltitude") => Rat2Ok(fields["GPSAltitude"], 0)
            /\ Has(fields, "GPSAltitudeRef") => IntOk(fields["GPSAltitudeRef"], 0)
      [] name = "LatLong" ->
            /\ \A n \in {"GPSLatitude", "GPSLongitude"} :
                  Has(fields, n) => tagDegrees(fields[n]).ok
            /\ \A n \in {"GPSLatitudeRef", "GPSLongitudeRef"} :
                  Has(fields, n) => StringValOk(fields[n])
      [] OTHER -> TRUE

\* C24: an accessor whose tag is not bound (and whose bound tags are readable)
\* returns an error for which IsTagNotPresentError is true; when all its tags
\* are bound, an error it returns is of another kind.  For DateTime,
\* FocalLength, GPSAltitude and LatLong.
C24_AbsentTagErrorIdentified ==
    (fn \in {"DateTime", "FocalLength", "GPSAltitude", "LatLong"}
        /\ result.returned /\ ~result.val.panic) =>
        IF NeededTagAbsent(fn, arg)
        THEN BoundTagsParse(fn, arg) => IsTagNotPresentError(result.val.err)
        ELSE ~IsTagNotPresentError(result.val.err)

\* C25: for a GPSAltitude n/d with d > 0, GPSAltitude returns n/d when
\* GPSAltitudeRef is 0 and -n/d when it is 1 (the fractional value when d does
\* not divide n); with GPSAltitude or GPSAltitudeRef unbound it returns an
\* error and 0.
C25_AltitudeIsQuotient ==
    (fn = "GPSAltitude" /\ result.returned) =>
        IF ~Has(arg, "GPSAltitude") \/ ~Has(arg, "GPSAltitudeRef")
        THEN /\ ~result.val.panic
             /\ ~IsNil(result.val.err)
             /\ result.val.val[1] = 0
        ELSE (Rat2Ok(arg["GPSAltitude"], 0) /\ IntOk(arg["GPSAltitudeRef"], 0)
                /\ Rat2(arg["GPSAltitude"], 0).den > 0
                /\ IntVal(arg["GPSAltitudeRef"], 0) \in {0, 1}) =>
             LET r == Rat2(arg["GPSAltitude"], 0)
                 sign == IF IntVal(arg["GPSAltitudeRef"], 0) = 1 THEN -1 ELSE 1
             IN /\ ~result.val.panic
                /\ IsNil(result.val.err)
                /\ result.val.val[1] * r.den = sign * r.num * result.val.val[2]

\* the tag holds three rationals h/1, m/1, sn/sd in range
TimeStampInRange(tag) ==
    /\ \A k \in 0..2 : Rat2Ok(tag, k)
    /\ Rat2(tag, 0).den = 1 /\ Rat2(tag, 0).num \in 0..23
    /\ Rat2(tag, 1).den = 1 /\ Rat2(tag, 1).num \in 0..59
    /\ Rat2(tag, 2).den > 0 /\ Rat2(tag, 2).num >= 0
    /\ Rat2(tag, 2).num < 60 * Rat2(tag, 2).den

\* C26: for a GPSDateStamp "YYYY:MM:DD" and a GPSTimeStamp h/1, m/1, s in
\* range, GPSTimeStamp returns without error the instant of that date, hour,
\* minute and second; with GPSDateStamp or GPSTimeStamp unbound it returns an
\* error.
C26_TimeStampOfDateAndClock ==
    (fn = "GPSTimeStamp" /\ result.returned) =>
        IF ~Has(arg, "GPSDateStamp") \/ ~Has(arg, "GPSTimeStamp")
        THEN ~result.val.panic /\ ~IsNil(result.val.err)
        ELSE (StringVal(arg["GPSDateStamp"]) = StrDate
                /\ TimeStampInRange(arg["GPSTimeStamp"])) =>
             LET tS == arg["GPSTimeStamp"]
                 s == Rat2(tS, 2)
             IN /\ ~result.val.panic
                /\ IsNil(result.val.err)
                /\ result.val.val =
                      [year |-> 2024, month |-> 1, day |-> 15,
                       hour |-> Rat2(tS, 0).num, min |-> Rat2(tS, 1).num,
                       sec |-> s.num \div s.den,
                       ms |-> ((s.num % s.den) * 1000) \div s.den]

\* the positions of s at which a part begins: not a separator, and first or
\* right after a separator
PartStarts(s) ==
    {k \in 1..Len(s) : s[k] \notin {44, 59} /\ (k = 1 \/ s[k - 1] \in {44, 59})}

\* the j-th part of s: from the j-th start up to the next separator
PartOf(s, j) ==
    LET b == CHOOSE k \in PartStarts(s) :
                    Cardinality({q \in PartStarts(s) : q <= k}) = j
        e == CHOOSE k \in b..Len(s) :
                    /\ \A q \in b..k : s[q] \notin {44, 59}
                    /\ (k = Len(s) \/ s[k + 1] \in {44, 59})
    IN SubSeq(s, b, e)

\* the three numbers a degree string stands for, when it has 3 or 6 parts
DegreeNumbers(s) ==
    IF Cardinality(PartStarts(s)) = 3
    THEN [k \in 1..3 |-> ParseFloat(PartOf(s, k))]
    ELSE [k \in 1..3 |-> ParseFloat(PartOf(s, 2 * k - 1) \o <<46>> \o PartOf(s, 2 * k))]

\* C27: parseTagDegreesString accepts its input iff splitting on ',' and ';'
\* gives exactly 3 numeric parts or exactly 6 parts that are pairwise numeric
\* as integer part and fraction part, and then returns degrees + minutes/60 +
\* seconds/3600 with the sign of degrees applied to minutes and seconds; any
\* other number of parts or a non-numeric part is an error.
C27_DegreeStringParsing ==
    (fn = "parseTagDegreesString" /\ result.returned) =>
        LET n == Cardinality(PartStarts(arg))
            accepted == n \in {3, 6} /\ \A k \in 1..3 : DegreeNumbers(arg)[k].ok
        IN /\ ~result.val.panic
           /\ IsNil(result.val.err) <=> accepted
           /\ accepted =>
                LET d == DegreeNumbers(arg)
                    sign == IF d[1].neg THEN -1 ELSE 1
                    mag == AddF(d[1].val, AddF(DivF(d[2].val, 60), DivF(d[3].val, 3600)))
                IN result.val.val = Float(sign * mag[1], mag[2])

\* "52,00000,50,00000,34,01180" is accepted as 6 parts, 52.842781055...
C27_Witness ==
    /\ fn = "parseTagDegreesString" /\ result.returned
    /\ Cardinality(PartStarts(arg)) = 6
    /\ PartOf(arg, 6) = <<48, 49, 49, 56, 48>>
    /\ IsNil(result.val.err)
    /\ result.val.val = Float(951170059, 18000000)

\* "-17,00000,15,00000,04.80000", with both decimal marks, has 5 parts and is
\* rejected
C27_WitnessMixedMarks ==
    /\ fn = "parseTagDegreesString" /\ result.returned
    /\ Cardinality(PartStarts(arg)) = 5
    /\ PartOf(arg, 5) = <<48, 52, 46, 56, 48, 48, 48, 48>>
    /\ ~IsNil(result.val.err)

\* "-17,00000,15.00000,04.80000" has 4 parts and is rejected
C27_WitnessFourParts ==
    /\ fn = "parseTagDegreesString" /\ result.returned
    /\ Cardinality(PartStarts(arg)) = 4
    /\ PartOf(arg, 3) = <<49, 53, 46, 48, 48, 48, 48, 48>>
    /\ ~IsNil(result.val.err)

\* "-008.0,30.0,03.6" is -8.501: the sign of the degrees goes to the rest
C27_WitnessNegative ==
    /\ fn = "parseTagDegreesString" /\ result.returned
    /\ Cardinality(PartStarts(arg)) = 3
    /\ IsNil(result.val.err)
    /\ result.val.val = Float(-8501, 1000)

\* the positions of r at which 0xFF is immediately followed by the marker
MarkerAt(r) == {k \in 1..(Len(r) - 1) : r[k] = 255 /\ r[k + 1] = jpegAPP1}

Least(S) == CHOOSE k \in S : \A q \in S : k <= q

\* C28: newAppSec returns the section at the first 0xFF immediately followed
\* by 0xE1, whatever precedes it: with L the big-endian length after the
\* marker, exactly the L - 2 bytes that follow; a short read is an error.
\* exifReader succeeds iff the body starts with "Exif\0\0" and yields the rest.
C28_FirstApp1SectionReturned ==
    (fn = "newAppSec" /\ result.returned) =>
        IF MarkerAt(arg) = {} \/ Least(MarkerAt(arg)) + 3 > Len(arg)
        THEN ~result.val.ok
        ELSE LET k == Least(MarkerAt(arg))
                 L == arg[k + 2] * 256 + arg[k + 3]
             IN L >= 2 =>
                  IF k + 3 + (L - 2) > Len(arg)
                  THEN ~result.val.ok
                  ELSE LET body == SubSeq(arg, k + 4, k + 3 + (L - 2)) IN
                       /\ result.val.ok
                       /\ result.val.data = body
                       /\ exifReader(result.val.data).ok <=>
                            (Len(body) >= 6 /\ SubSeq(body, 1, 6) = ExifMarker)
                       /\ exifReader(result.val.data).ok =>
                            exifReader(result.val.data).data = SubSeq(body, 7, Len(body))

\* the position in the list of the Sony.ShutterCount descriptor declared
\* without models
ShutterCountFallback ==
    CHOOSE k \in 1..Len(Sony0x9050BinaryTags) :
        /\ Sony0x9050BinaryTags[k].fieldName = "Sony.ShutterCount"
        /\ Sony0x9050BinaryTags[k].models = <<>>

\* C29: for a Model that no other Sony.ShutterCount descriptor matches and a
\* descrambled blob with non-zero bytes at 0x32..0x34, the descriptor loop
\* binds Sony.ShutterCount to the 24-bit value at offset 0x32.
C29_ShutterCountFallbackBinds ==
    (fn = "sonyBinaryTags" /\ result.returned) =>
        LET bt == Sony0x9050BinaryTags[ShutterCountFallback]
            bound == LoadTags(EmptyFields, result.val, sonyFieldTable(Sony0x9050Fields), TRUE)
        IN (/\ MatchingDescriptors(arg.model, "Sony.ShutterCount") \subseteq {ShutterCountFallback}
            /\ Len(arg.buf) >= bt.offset + 3
            /\ \E j \in 1..3 : arg.buf[bt.offset + j] # 0) =>
                /\ Has(bound, "Sony.ShutterCount")
                /\ bound["Sony.ShutterCount"].Val =
                      <<arg.buf[bt.offset + 1], arg.buf[bt.offset + 2], arg.buf[bt.offset + 3], 0>>

\* the position of the call right after its k-th traversal
AfterStage == <<"loadGPS", "loadInterop">>

\* C30: a traversal of the default parser whose pointer is corrupt (seek or
\* directory decode fails) fails and leaves the field mapping as it was; a
\* traversal whose pointer field is absent leaves the mapping as it was and
\* records no error.  The mapping of the call after a traversal is the one the
\* traversal left.
C30_FailedTraversalKeepsFields ==
    \A p \in active : \A k \in 1..Len(attempts[p]) :
        LET a == attempts[p][k] IN
        /\ PointerCorrupt(a.before, k) => a.failed
        /\ a.failed =>
                /\ a.after = a.before
                /\ (k - 1) \in DOMAIN te[p]
        /\ ~Has(a.before, StagePointer[k]) =>
                /\ ~a.failed
                /\ a.after = a.before
                /\ (k - 1) \notin DOMAIN te[p]
        /\ (k = Len(attempts[p]) /\ k <= 2 /\ pc[p] = AfterStage[k]) =>
                x[p].Fields = a.after
        /\ k < Len(attempts[p]) => attempts[p][k + 1].before = a.after

\* a call whose Exif pointer is corrupt and whose GPS pointer is absent went
\* through both traversals with the fields of the primary directory bound
C30_Witness ==
    \E p \in active :
        /\ Len(attempts[p]) >= 2
        /\ PointerCorrupt(attempts[p][1].before, 1)
        /\ attempts[p][1].failed
        /\ Has(attempts[p][1].after, "ExifIFDPointer")
        /\ ~Has(attempts[p][2].before, "GPSInfoIFDPointer")
        /\ ~attempts[p][2].failed
        /\ DOMAIN te[p] = {loadExif}

====
